---- MODULE Spec2Model ----
(***************************************************************************)
(* Model of the Teams transcript MCP server: the Graph client pipeline     *)
(* (calendar discovery, join-URL resolution, transcript listing and        *)
(* download), the tool handlers that drive it, and the VTT cleaner.        *)
(*                                                                         *)
(* Text is modelled as a sequence of one-character strings, so that        *)
(* trimming, regular-expression matching and replacement are computed      *)
(* character by character as the JavaScript source computes them.          *)
(***************************************************************************)
EXTENDS Integers, Sequences, FiniteSets, TLC

VARIABLES
  \* ---- cleanVttTranscript / mergeSpeakerLines (vtt-parser) ----
  src,            \* the cue lines the input text was rendered from (history)
  rawVtt,         \* argument of cleanVttTranscript
  vpc,            \* position inside cleanVttTranscript
  pass,           \* 1: first run on the input, 2: re-run on its own output
  lines,          \* rawVtt.split(/\r?\n/)
  li,             \* index of the next element of lines
  skipNote,
  cleanedLines,
  mi,             \* index of the next element inside mergeSpeakerLines
  merged,
  currentSpeaker,
  currentText,
  output,         \* return value of cleanVttTranscript
  firstOutput,    \* return value of the first run (kept for the re-run)
  \* ---- one tools/call request (server, graph) ----
  tool,           \* request.params.name
  args,           \* request.params.arguments
  gpc,            \* the await the request is suspended at
  fn,             \* the exported graph function running: findMeetingsByName / listMeetings
  fnStatus,       \* "running", "returned" or "threw"
  calReq,         \* the calendarView request of fetchCalendarEvents
  calOutcome,     \* how the calendarView request ended (history)
  events,         \* const events
  cands,          \* nameMatches (findMeetingsByName) / teamsMeetings (listMeetings)
  ci,             \* index in cands of the event being resolved
  limit,          \* const limit of listMeetings
  resolved,       \* const resolved
  cur,            \* the resolveOnlineMeeting call in progress
  last,           \* the resolveOnlineMeeting call that ended last (history)
  resolverCalls,  \* number of resolveOnlineMeeting calls of this request (history)
  log,            \* what console.log / warn / error have written, as a set of records
  meetings,       \* const meetings of the handler
  trOutcome,      \* how the transcripts request of the handler ended (history)
  transcripts,    \* const transcripts of the handler
  cleanText,      \* const cleanText of the handler
  listCalls,      \* number of listTranscripts calls (history)
  contentCalls,   \* number of getTranscriptContent calls (history)
  contentReq,     \* the requests of getTranscriptContent and their outcome (history)
  sent,           \* the listTranscripts and getTranscriptContent calls of
                  \* get_meeting_transcript / save_transcript, in order (history)
  pending,        \* list_recent_meetings: the probe calls that have not settled
  hasTranscript,  \* list_recent_meetings: the probe results
  probeFailed,    \* list_recent_meetings: the probe calls that threw (history)
  result,         \* the result of the tools/call request
  \* ---- buildDateRange (graph) ----
  now,            \* the time new Date() reads, in seconds
  tz,             \* the time zone of the process
  dateArg,        \* argument filterDate of buildDateRange, <<>> when absent
  since,          \* local since of buildDateRange
  range,          \* what buildDateRange returns
  bpc,            \* position inside buildDateRange
  \* ---- the /mcp endpoint (server, auth) ----
  reqs,           \* the activations of the route handler, by request
  oboLog          \* the exchanges getGraphTokenOBO has made (history)

vttVars == <<src, rawVtt, vpc, pass, lines, li, skipNote, cleanedLines, mi,
             merged, currentSpeaker, currentText, output, firstOutput>>

graphVars == <<tool, args, gpc, fn, fnStatus, calReq, calOutcome, events, cands, ci,
               limit, resolved, cur, last, resolverCalls, log, meetings, trOutcome,
               transcripts, cleanText, listCalls, contentCalls, contentReq, sent, pending,
               hasTranscript, probeFailed, result>>

dateVars == <<now, tz, dateArg, since, range, bpc>>

httpVars == <<reqs, oboLog>>

vars == <<vttVars, graphVars, dateVars, httpVars>>

(***************************************************************************)
(* Characters and character classes                                        *)
(***************************************************************************)
UpperLetters == <<"A","B","C","D","E","F","G","H","I","J","K","L","M",
                  "N","O","P","Q","R","S","T","U","V","W","X","Y","Z">>
LowerLetters == <<"a","b","c","d","e","f","g","h","i","j","k","l","m",
                  "n","o","p","q","r","s","t","u","v","w","x","y","z">>

\* String.prototype.toLowerCase, one character
toLowerChar(c) ==
  IF \E i \in 1..26 : UpperLetters[i] = c
  THEN LowerLetters[CHOOSE i \in 1..26 : UpperLetters[i] = c]
  ELSE c

toLowerCase(s) == [i \in 1..Len(s) |-> toLowerChar(s[i])]

\* \s
WhiteSpace == {" ", "\t", "\r", "\n"}
\* the characters '.' does not match
LineTerminator == {"\n", "\r"}
\* \d
Digit == {"0","1","2","3","4","5","6","7","8","9"}
\* [0-9a-f] under the i flag
HexDigit == Digit \cup {"a","b","c","d","e","f","A","B","C","D","E","F"}
\* \w
WordChar == {UpperLetters[i] : i \in 1..26} \cup {LowerLetters[i] : i \in 1..26}
            \cup Digit \cup {"_"}

(***************************************************************************)
(* String primitives                                                       *)
(***************************************************************************)
\* first position p >= i with s[p] in set, or 0
indexOfAnyFrom(s, set, i) ==
  LET hits == {p \in i..Len(s) : s[p] \in set}
  IN IF hits = {} THEN 0 ELSE CHOOSE p \in hits : \A q \in hits : p <= q

\* first position p >= i with s[p] = c, or 0
indexOfFrom(s, c, i) == indexOfAnyFrom(s, {c}, i)

\* first position p >= i that is not white space (Len(s)+1 when none): \s*
skipWs(s, i) ==
  LET stops == {p \in i..Len(s) : s[p] \notin WhiteSpace}
  IN IF stops = {} THEN (IF i > Len(s) THEN i ELSE Len(s) + 1)
     ELSE CHOOSE p \in stops : \A q \in stops : p <= q

\* String.prototype.trim
trim(s) ==
  LET keep == {p \in 1..Len(s) : s[p] \notin WhiteSpace}
  IN IF keep = {} THEN <<>>
     ELSE SubSeq(s, CHOOSE p \in keep : \A q \in keep : p <= q,
                    CHOOSE p \in keep : \A q \in keep : q <= p)

\* case-insensitive /^p/i
startsWithCI(s, p) ==
  /\ Len(s) >= Len(p)
  /\ \A i \in 1..Len(p) : toLowerChar(s[i]) = toLowerChar(p[i])

\* rawVtt.split(/\r?\n/): the k-th piece lies between the (k-1)-th and the k-th
\* newline, without the carriage return that precedes the newline
splitLines(s) ==
  LET nl == {p \in 1..Len(s) : s[p] = "\n"}
      nth(k) == IF k = 0 THEN 0
                ELSE IF k > Cardinality(nl) THEN Len(s) + 1
                ELSE CHOOSE p \in nl : Cardinality({q \in nl : q < p}) = k - 1
      pieceEnd(k) == LET e == nth(k)
                 IN IF e <= Len(s) /\ e - 1 > nth(k - 1) /\ s[e - 1] = "\r"
                    THEN e - 2 ELSE e - 1
  IN [k \in 1..(Cardinality(nl) + 1) |-> SubSeq(s, nth(k - 1) + 1, pieceEnd(k))]

\* Array.prototype.join('\n')
RECURSIVE joinNewline(_)
joinNewline(ss) ==
  IF ss = <<>> THEN <<>>
  ELSE IF Len(ss) = 1 THEN ss[1]
  ELSE ss[1] \o <<"\n">> \o joinNewline(Tail(ss))

(***************************************************************************)
(* The line tests of cleanVttTranscript                                    *)
(***************************************************************************)
WEBVTT == <<"W","E","B","V","T","T">>
NOTE == <<"N","O","T","E">>

\* /^WEBVTT/i
isHeaderLine(t) == startsWithCI(t, WEBVTT)

\* /^NOTE\b/i
isNoteLine(t) ==
  /\ startsWithCI(t, NOTE)
  /\ (Len(t) = 4 \/ t[5] \notin WordChar)

\* \d{2}:\d{2}:\d{2}\.\d{3} at position i
isTimeAt(s, i) ==
  /\ i + 11 <= Len(s)
  /\ s[i] \in Digit /\ s[i+1] \in Digit /\ s[i+2] = ":"
  /\ s[i+3] \in Digit /\ s[i+4] \in Digit /\ s[i+5] = ":"
  /\ s[i+6] \in Digit /\ s[i+7] \in Digit /\ s[i+8] = "."
  /\ s[i+9] \in Digit /\ s[i+10] \in Digit /\ s[i+11] \in Digit

\* /^\d{2}:\d{2}:\d{2}\.\d{3}\s*-->\s*\d{2}:\d{2}:\d{2}\.\d{3}/
isTimingLine(t) ==
  /\ isTimeAt(t, 1)
  /\ LET j == skipWs(t, 13)
     IN /\ j + 2 <= Len(t)
        /\ t[j] = "-" /\ t[j+1] = "-" /\ t[j+2] = ">"
        /\ isTimeAt(t, skipWs(t, j + 3))

\* /^\d+$/
isNumericId(t) == t # <<>> /\ \A i \in 1..Len(t) : t[i] \in Digit

\* /^[0-9a-f]{8}-[0-9a-f]{4}-[0-9a-f]{4}-[0-9a-f]{4}-[0-9a-f]{12}$/i
isUuidId(t) ==
  /\ Len(t) = 36
  /\ \A i \in 1..36 :
       IF i \in {9, 14, 19, 24} THEN t[i] = "-" ELSE t[i] \in HexDigit

(***************************************************************************)
(* The replacements of cleanVttTranscript                                  *)
(***************************************************************************)
\* /<v\s+([^>]+)>/i at position i: position of the closing '>', or 0
voiceTagEnd(s, i) ==
  IF /\ s[i] = "<"
     /\ i + 2 <= Len(s)
     /\ s[i+1] \in {"v", "V"}
     /\ s[i+2] \in WhiteSpace
  THEN LET j == indexOfFrom(s, ">", i + 3)
       IN IF j >= i + 4 THEN j ELSE 0
  ELSE 0

\* the text captured by ([^>]+): \s+ is greedy but gives one character back
\* when nothing else is left before '>'
voiceTagName(s, i, j) ==
  LET k == skipWs(s, i + 2)
  IN IF k <= j - 1 THEN SubSeq(s, k, j - 1) ELSE SubSeq(s, j - 1, j - 1)

\* cleaned.replace(/<v\s+([^>]+)>/gi, '$1: ')
RECURSIVE replaceVoiceOpenFrom(_, _)
replaceVoiceOpenFrom(s, i) ==
  IF i > Len(s) THEN <<>>
  ELSE LET j == voiceTagEnd(s, i)
       IN IF j > 0
          THEN voiceTagName(s, i, j) \o <<":", " ">> \o replaceVoiceOpenFrom(s, j + 1)
          ELSE <<s[i]>> \o replaceVoiceOpenFrom(s, i + 1)

replaceVoiceOpen(s) == replaceVoiceOpenFrom(s, 1)

\* cleaned.replace(/<\/v>/gi, '')
RECURSIVE replaceVoiceCloseFrom(_, _)
replaceVoiceCloseFrom(s, i) ==
  IF i > Len(s) THEN <<>>
  ELSE IF /\ i + 3 <= Len(s)
          /\ s[i] = "<" /\ s[i+1] = "/" /\ s[i+2] \in {"v", "V"} /\ s[i+3] = ">"
       THEN replaceVoiceCloseFrom(s, i + 4)
       ELSE <<s[i]>> \o replaceVoiceCloseFrom(s, i + 1)

replaceVoiceClose(s) == replaceVoiceCloseFrom(s, 1)

\* cleaned.replace(/<[^>]+>/g, '')
RECURSIVE stripTagsFrom(_, _)
stripTagsFrom(s, i) ==
  IF i > Len(s) THEN <<>>
  ELSE LET j == IF s[i] = "<" THEN indexOfFrom(s, ">", i + 1) ELSE 0
       IN IF j >= i + 2
          THEN stripTagsFrom(s, j + 1)
          ELSE <<s[i]>> \o stripTagsFrom(s, i + 1)

stripTags(s) == stripTagsFrom(s, 1)

\* cleaned.replace(/\s{2,}/g, ' ')
RECURSIVE collapseSpacesFrom(_, _)
collapseSpacesFrom(s, i) ==
  IF i > Len(s) THEN <<>>
  ELSE IF s[i] \in WhiteSpace
       THEN LET k == skipWs(s, i)
            IN IF k - i >= 2
               THEN <<" ">> \o collapseSpacesFrom(s, k)
               ELSE <<s[i]>> \o collapseSpacesFrom(s, i + 1)
       ELSE <<s[i]>> \o collapseSpacesFrom(s, i + 1)

collapseSpaces(s) == collapseSpacesFrom(s, 1)

\* the dialogue branch of the loop body: the text pushed for a dialogue line
cleanDialogue(t) ==
  trim(collapseSpaces(stripTags(replaceVoiceClose(replaceVoiceOpen(t)))))

\* cleanLineStep that gives the transcript up at a tag that is never closed:
\* it forgets the lines it has kept
cleanLineStepGivesUp(line, st) ==
  IF \E p \in 1..Len(line) : line[p] = "<" /\ indexOfFrom(line, ">", p) = 0
  THEN [skipNote |-> st.skipNote, cleanedLines |-> <<>>]
  ELSE IF trim(line) = <<>> THEN [skipNote |-> FALSE, cleanedLines |-> st.cleanedLines]
  ELSE IF isHeaderLine(trim(line)) THEN st
  ELSE IF isNoteLine(trim(line)) THEN [skipNote |-> TRUE, cleanedLines |-> st.cleanedLines]
  ELSE IF st.skipNote \/ isTimingLine(trim(line)) \/ isNumericId(trim(line))
          \/ isUuidId(trim(line)) \/ Len(cleanDialogue(trim(line))) = 0 THEN st
  ELSE [skipNote |-> st.skipNote,
        cleanedLines |-> Append(st.cleanedLines, cleanDialogue(trim(line)))]

\* cleanLineStep that skips the NOTE line alone and never sets skipNote
cleanLineStepNoteLineOnly(line, st) ==
  LET trimmed == trim(line)
  IN IF trimmed = <<>> THEN [skipNote |-> FALSE, cleanedLines |-> st.cleanedLines]
     ELSE IF isHeaderLine(trimmed) \/ isNoteLine(trimmed) \/ isTimingLine(trimmed)
             \/ isNumericId(trimmed) \/ isUuidId(trimmed) THEN st
     ELSE IF Len(cleanDialogue(trimmed)) > 0
          THEN [skipNote |-> st.skipNote,
                cleanedLines |-> Append(st.cleanedLines, cleanDialogue(trimmed))]
          ELSE st

\* one iteration of the for loop of cleanVttTranscript:
\* the new values of skipNote and cleanedLines
cleanLineStep(line, st) ==
  LET trimmed == trim(line)
  IN IF trimmed = <<>> THEN [skipNote |-> FALSE, cleanedLines |-> st.cleanedLines]
     ELSE IF isHeaderLine(trimmed) THEN st
     ELSE IF isNoteLine(trimmed) THEN [skipNote |-> TRUE, cleanedLines |-> st.cleanedLines]
     ELSE IF st.skipNote THEN st
     ELSE IF isTimingLine(trimmed) THEN st
     ELSE IF isNumericId(trimmed) THEN st
     ELSE IF isUuidId(trimmed) THEN st
     ELSE LET cleaned == cleanDialogue(trimmed)
          IN IF Len(cleaned) > 0
             THEN [skipNote |-> st.skipNote,
                   cleanedLines |-> Append(st.cleanedLines, cleaned)]
             ELSE st

(***************************************************************************)
(* mergeSpeakerLines                                                       *)
(***************************************************************************)
\* line.match(/^([^:]+):\s*(.*)/)
hasSpeakerMatch(line) == indexOfFrom(line, ":", 1) >= 2

\* speakerMatch[1].trim()
matchSpeaker(line) == trim(SubSeq(line, 1, indexOfFrom(line, ":", 1) - 1))

\* speakerMatch[2].trim(): (.*) stops in front of the first line terminator
matchText(line) ==
  LET p == indexOfFrom(line, ":", 1)
      b == skipWs(line, p + 1)
      e == indexOfAnyFrom(line, LineTerminator, b)
  IN trim(SubSeq(line, b, IF e = 0 THEN Len(line) ELSE e - 1))

\* `${currentSpeaker}: ${currentText}`
paragraph(speaker, text) == speaker \o <<":", " ">> \o text

\* mergeLineStep without the branch that appends to the open paragraph: every
\* prefixed line closes the paragraph before it
mergeLineStepNoAppend(line, st) ==
  IF hasSpeakerMatch(line)
  THEN [merged |-> IF st.currentSpeaker # <<>>
                   THEN Append(st.merged, paragraph(st.currentSpeaker, st.currentText))
                   ELSE st.merged,
        currentSpeaker |-> matchSpeaker(line),
        currentText |-> matchText(line)]
  ELSE IF st.currentSpeaker # <<>>
       THEN [st EXCEPT !.currentText = @ \o <<" ">> \o line]
       ELSE [st EXCEPT !.merged = Append(@, line)]

\* one iteration of the for loop of mergeSpeakerLines
mergeLineStep(line, st) ==
  IF hasSpeakerMatch(line)
  THEN LET speaker == matchSpeaker(line)
           text == matchText(line)
       IN IF speaker = st.currentSpeaker
          THEN [st EXCEPT !.currentText = @ \o <<" ">> \o text]
          ELSE [merged |-> IF st.currentSpeaker # <<>>
                           THEN Append(st.merged,
                                       paragraph(st.currentSpeaker, st.currentText))
                           ELSE st.merged,
                currentSpeaker |-> speaker,
                currentText |-> text]
  ELSE IF st.currentSpeaker # <<>>
       THEN [st EXCEPT !.currentText = @ \o <<" ">> \o line]
       ELSE [st EXCEPT !.merged = Append(@, line)]

\* a merge pass that returns without the flush after the loop
mergeFlushNothing(st) == st.merged

\* the flush after the loop
mergeFlush(st) ==
  IF st.currentSpeaker # <<>>
  THEN Append(st.merged, paragraph(st.currentSpeaker, st.currentText))
  ELSE st.merged

RECURSIVE mergeFold(_, _)
mergeFold(ls, st) ==
  IF ls = <<>> THEN st ELSE mergeFold(Tail(ls), mergeLineStep(Head(ls), st))

mergeSpeakerLines(ls) ==
  IF Len(ls) = 0 THEN <<>>
  ELSE joinNewline(mergeFlush(mergeFold(ls,
         [merged |-> <<>>, currentSpeaker |-> <<>>, currentText |-> <<>>])))

RECURSIVE cleanFold(_, _)
cleanFold(ls, st) ==
  IF ls = <<>> THEN st ELSE cleanFold(Tail(ls), cleanLineStep(Head(ls), st))

\* the whole function, as the tool handlers call it
cleanVttTranscript(raw) ==
  mergeSpeakerLines(
    cleanFold(splitLines(raw), [skipNote |-> FALSE, cleanedLines |-> <<>>]).cleanedLines)

(***************************************************************************)
(* graph: pure helpers                                                     *)
(***************************************************************************)
HexDigits == <<"0","1","2","3","4","5","6","7","8","9","a","b","c","d","e","f">>

hexValue(c) == (CHOOSE i \in 1..16 : HexDigits[i] = toLowerChar(c)) - 1

\* the printable ASCII characters, code 32 first
AsciiPrintable ==
  <<" ","!","\"","#","$","%","&","'","(",")","*","+",",","-",".","/",
    "0","1","2","3","4","5","6","7","8","9",":",";","<","=",">","?",
    "@","A","B","C","D","E","F","G","H","I","J","K","L","M","N","O",
    "P","Q","R","S","T","U","V","W","X","Y","Z","[","\\","]","^","_",
    "\\g","a","b","c","d","e","f","g","h","i","j","k","l","m","n","o",
    "p","q","r","s","t","u","v","w","x","y","z","{","|","}","~">>

\* the character with code b < 128; the control characters other than tab,
\* line feed and carriage return are written "\\c", the grave accent "\\g"
asciiChar(b) ==
  IF b >= 32 /\ b <= 126 THEN AsciiPrintable[b - 31]
  ELSE IF b = 9 THEN "\t"
  ELSE IF b = 10 THEN "\n"
  ELSE IF b = 13 THEN "\r"
  ELSE "\\c"

\* %XX at position i
isEscapeAt(s, i) ==
  /\ i + 2 <= Len(s)
  /\ s[i] = "%" /\ s[i+1] \in HexDigit /\ s[i+2] \in HexDigit

byteAt(s, i) == 16 * hexValue(s[i+1]) + hexValue(s[i+2])

\* number of continuation bytes a UTF-8 lead byte announces (0: not a lead byte)
utf8Continuations(b) ==
  IF b >= 194 /\ b <= 223 THEN 1
  ELSE IF b >= 224 /\ b <= 239 THEN 2
  ELSE IF b >= 240 /\ b <= 244 THEN 3
  ELSE 0

\* the escapes after the lead byte at i are its n continuation bytes
utf8TailOk(s, i, b, n) ==
  \A k \in 1..n :
    /\ isEscapeAt(s, i + 3 * k)
    /\ LET c == byteAt(s, i + 3 * k)
           lo == IF k = 1 /\ b = 224 THEN 160
                 ELSE IF k = 1 /\ b = 240 THEN 144 ELSE 128
           hi == IF k = 1 /\ b = 237 THEN 159
                 ELSE IF k = 1 /\ b = 244 THEN 143 ELSE 191
       IN c >= lo /\ c <= hi

\* decodeURIComponent: [ok |-> FALSE] is the URIError it throws on a percent
\* sign that does not start a well-formed escape sequence; a decoded character
\* outside ASCII is written "\\u"
RECURSIVE decodeFrom(_, _)
decodeFrom(s, i) ==
  IF i > Len(s) THEN [ok |-> TRUE, value |-> <<>>]
  ELSE IF s[i] # "%"
       THEN LET r == decodeFrom(s, i + 1)
            IN [ok |-> r.ok, value |-> <<s[i]>> \o r.value]
  ELSE IF ~isEscapeAt(s, i) THEN [ok |-> FALSE, value |-> <<>>]
  ELSE LET b == byteAt(s, i)
           n == utf8Continuations(b)
       IN IF b < 128
          THEN LET r == decodeFrom(s, i + 3)
               IN [ok |-> r.ok, value |-> <<asciiChar(b)>> \o r.value]
          ELSE IF n = 0 \/ ~utf8TailOk(s, i, b, n) THEN [ok |-> FALSE, value |-> <<>>]
          ELSE LET r == decodeFrom(s, i + 3 * (n + 1))
               IN [ok |-> r.ok, value |-> <<"\\u">> \o r.value]

decodeURIComponent(s) == decodeFrom(s, 1)

\* String.prototype.includes
includes(s, needle) ==
  \E i \in 0..(Len(s) - Len(needle)) : SubSeq(s, i + 1, i + Len(needle)) = needle

Min(a, b) == IF a <= b THEN a ELSE b

(***************************************************************************)
(* A calendar event is [subject, joinUrl].  An empty subject stands for a  *)
(* missing or empty subject, an empty joinUrl for an event without         *)
(* onlineMeeting.joinUrl (or with an empty one): the code tests both for   *)
(* truthiness only.  An OnlineMeeting is [joinWebUrl, item, subject]: the  *)
(* URL the backend matched, its position in the response, and the subject  *)
(* the backend reports; joinWebUrl and item together stand for its id.     *)
(***************************************************************************)
NoMeeting == [joinWebUrl |-> <<>>, item |-> 0, subject |-> <<>>]

\* the filter of findMeetingsByName without the test of the subject
nameMatchesOfAnySubject(evs, meetingName) ==
  SelectSeq(evs, LAMBDA e : e.joinUrl # <<>>)

\* findMeetingsByName: the filter on subject and join URL
nameMatchesOf(evs, meetingName) ==
  LET needle == toLowerCase(meetingName)
  IN SelectSeq(evs, LAMBDA e : /\ e.subject # <<>>
                                /\ includes(toLowerCase(e.subject), needle)
                                /\ e.joinUrl # <<>>)

\* listMeetings without its filter
teamsMeetingsOfAll(evs) == evs

\* listMeetings: the filter on the join URL
teamsMeetingsOf(evs) == SelectSeq(evs, LAMBDA e : e.joinUrl # <<>>)

\* A backend answer to a GET is [status, value]: status "network" (fetch
\* rejects), "denied" or "failed" (a non-2xx response), or "ok" with the value
\* array of the JSON body.
GetFailures == {"network", "denied", "failed"}

\* graphGet: TRUE when it throws
graphGetThrows(answer) == answer.status \in GetFailures

\* graphGetSafe without the console.error
graphGetSafeSilent(answer, endpoint) ==
  IF graphGetThrows(answer)
  THEN [ok |-> FALSE, value |-> <<>>, logged |-> {}]
  ELSE [ok |-> TRUE, value |-> answer.value, logged |-> {}]

\* graphGetSafe: the parsed body, or null (ok = FALSE) with a console.error
graphGetSafe(answer, endpoint) ==
  IF graphGetThrows(answer)
  THEN [ok |-> FALSE, value |-> <<>>,
        logged |-> {[level |-> "error", text |-> "GET failed", about |-> endpoint]}]
  ELSE [ok |-> TRUE, value |-> answer.value, logged |-> {}]

\* fetchCalendarEvents: the events returned and the lines logged
fetchCalendarEvents(answer) ==
  LET data == graphGetSafe(answer, "calendarView")
      evs == IF data.ok THEN data.value ELSE <<>>
  IN [events |-> evs,
      logged |-> {[level |-> "log", text |-> "calendarView request", about |-> "calendarView"]}
                 \cup data.logged
                 \cup {[level |-> "log", text |-> "calendarView returned",
                        about |-> "calendarView"]}]

\* a request that asks for 100 events whatever maxEvents is
calendarTopAlways100(maxEvents) == 100

\* $top of fetchCalendarEvents
calendarTop(maxEvents) == Min(maxEvents, 100)

\* tryResolveByJoinUrl: data?.value?.[0] ?? null
tryResolveByJoinUrl(answer) ==
  LET data == graphGetSafe(answer, "onlineMeetings")
  IN [found |-> data.ok /\ Len(data.value) > 0,
      meeting |-> IF data.ok /\ Len(data.value) > 0 THEN data.value[1] ELSE NoMeeting,
      logged |-> data.logged]

\* resolveOnlineMeeting without the test decoded !== joinUrl
afterExactMissAlwaysRetry(joinUrl) ==
  IF ~decodeURIComponent(joinUrl).ok THEN "throw" ELSE "retry"

\* resolveOnlineMeeting after a failed exact lookup: "throw" when decoding
\* throws, "retry" when the decoded URL differs, "null" otherwise
afterExactMiss(joinUrl) ==
  LET decoded == decodeURIComponent(joinUrl)
  IN IF ~decoded.ok THEN "throw"
     ELSE IF decoded.value # joinUrl THEN "retry"
     ELSE "null"

\* resolveCalendarEvent: meeting.subject = event.subject || meeting.subject
withCalendarSubject(meeting, event) ==
  [meeting EXCEPT !.subject = IF event.subject # <<>> THEN event.subject ELSE @]

\* getTranscriptContent on graphGetSafe: a failed request gives the empty text
getTranscriptContentSoft(answer) ==
  [threw |-> FALSE, text |-> IF graphGetThrows(answer) THEN <<>> ELSE answer.value]

\* getTranscriptContent up to its await: one graphGet of
\* .../content?$format=text/vtt with Accept: text/vtt
contentRequest(req) ==
  [format |-> "text/vtt", accept |-> "text/vtt", requests |-> req.requests + 1,
   outcome |-> "none"]

\* listTranscripts on graphGetSafe: a failed request gives the empty list
listTranscriptsSoft(answer) ==
  [threw |-> FALSE, value |-> IF graphGetThrows(answer) THEN <<>> ELSE answer.value]

\* a handler that takes the last item of the list
canonicalLast(items) == items[Len(items)]

\* const meeting = meetings[0]; transcripts[0].id
canonical(items) == items[1]

\* a handler that takes transcripts[0] without looking at the length
noTranscriptsNever(ts) == FALSE

\* handleGetMeetingTranscript / handleSaveTranscript: transcripts.length === 0
noTranscripts(ts) == Len(ts) = 0

\* listTranscripts: throws when graphGet throws, else data.value || []
listTranscripts(answer) ==
  IF graphGetThrows(answer)
  THEN [threw |-> TRUE, value |-> <<>>]
  ELSE [threw |-> FALSE, value |-> answer.value]

\* getTranscriptContent: throws when graphGet throws, else the body text
getTranscriptContent(answer) ==
  IF graphGetThrows(answer)
  THEN [threw |-> TRUE, text |-> <<>>]
  ELSE [threw |-> FALSE, text |-> answer.value]

(***************************************************************************)
(* Transcript texts fed to the cleaner.  A text is a sequence of at most   *)
(* MaxLines lines taken from LinePool, joined by newlines.  A cue line is  *)
(* rendered the way Teams writes it, <v Speaker>text</v>; the record keeps *)
(* the speaker and the text it was rendered from.                          *)
(***************************************************************************)
MaxLines == 3

voiceLine(speaker, text) ==
  <<"<", "v", " ">> \o speaker \o <<">">> \o text \o <<"<", "/", "v", ">">>

CueLine(speaker, text) ==
  [kind |-> "cue", speaker |-> speaker, text |-> text,
   raw |-> voiceLine(speaker, text)]

RawLine(kind, chars) ==
  [kind |-> kind, speaker |-> <<>>, text |-> <<>>, raw |-> chars]

TimingText ==
  <<"0","0",":","0","0",":","0","0",".","0","0","0"," ","-","-",">"," ",
    "0","0",":","0","0",":","0","2",".","0","0","0">>

UuidText ==
  <<"0","a","1","b","2","c","3","d","-","4","e","5","f","-","6","A","7","B","-",
    "8","C","9","D","-","0","E","1","F","2","a","3","b","4","c","5","d">>

LinePool ==
  { RawLine("blank", <<>>),
    RawLine("header", WEBVTT),
    RawLine("note", <<"N","O","T","E"," ","x">>),
    RawLine("timing", TimingText),
    RawLine("id", <<"1","2">>),
    RawLine("id", UuidText),
    CueLine(<<"A">>, <<"h","i">>),
    CueLine(<<"A">>, <<>>),
    CueLine(<<"B">>, <<"y","o">>),
    CueLine(<<"A",":","B">>, <<"x">>),
    CueLine(<<"N","O","T","E"," ","t">>, <<"x">>),
    RawLine("text", <<"A",":"," ","h","i">>),
    RawLine("text", <<"o","k">>),
    RawLine("text", <<"<","v"," ","A">>),
    CueLine(<<"B">>, <<"y","\r","o">>) }

RECURSIVE SeqsUpTo(_, _)
SeqsUpTo(S, n) ==
  IF n = 0 THEN {<<>>}
  ELSE LET shorter == SeqsUpTo(S, n - 1)
       IN shorter \cup {Append(q, x) : q \in {r \in shorter : Len(r) = n - 1}, x \in S}

renderVtt(cueLines) == joinNewline([i \in 1..Len(cueLines) |-> cueLines[i].raw])

(***************************************************************************)
(* buildDateRange.  Times are seconds; a time zone is its standard offset   *)
(* and, when it has daylight saving time, the two instants at which the     *)
(* offset changes.                                                          *)
(***************************************************************************)
Days(n) == n * 86400
Hours(n) == n * 3600

\* the offset of local time from UTC at instant t
utcOffset(z, t) ==
  IF z.dst /\ t >= z.forward /\ t < z.back THEN z.base + Hours(1) ELSE z.base

\* LocalTime(t)
localTime(z, t) == t + utcOffset(z, t)

\* UTC(tlocal): a local time that is skipped or repeated at a transition is
\* read with the offset in force before the transition
utcOfLocal(z, l) ==
  LET us == {u \in {l - z.base, l - z.base - Hours(1)} : localTime(z, u) = l}
  IN IF us = {} THEN l - z.base
     ELSE CHOOSE u \in us : \A v \in us : u <= v

\* d.setDate(d.getDate() + days): the same local time of day, days later
setDate(z, t, days) == utcOfLocal(z, localTime(z, t) + Days(days))

startOfDay == <<"T","0","0",":","0","0",":","0","0","Z">>
endOfDay == <<"T","2","3",":","5","9",":","5","9","Z">>

\* buildDateRange with a filterDate
dateRangeOf(filterDate) ==
  [startDT |-> filterDate \o startOfDay, endDT |-> filterDate \o endOfDay]

(***************************************************************************)
(* The values the variables of one part hold while the other part runs.    *)
(***************************************************************************)
NoArgs == [meetingName |-> <<>>, meetingDate |-> <<>>, limitGiven |-> FALSE,
           limit |-> 0, siteUrl |-> <<>>]
NoRequest == [filterDate |-> <<>>, maxEvents |-> 0, top |-> 0]
NoCall == [joinUrl |-> <<>>, lookups |-> <<>>]
NoLast == [joinUrl |-> <<>>, lookups |-> <<>>, ret |-> "none", matched |-> 0,
           meeting |-> NoMeeting, event |-> [subject |-> <<>>, joinUrl |-> <<>>]]
NoResult == [isError |-> FALSE, msg |-> "", text |-> <<>>, items |-> <<>>]

NoZone == [dst |-> FALSE, base |-> 0, forward |-> 0, back |-> 0]
NoRange == [startDT |-> 0, endDT |-> 0]

NoTranscriptMessage == "was found but has no transcript available"
NoMeetingMessage == "No meeting found matching"

(***************************************************************************)
(* The /mcp endpoint.  Each request has its own activation of the route     *)
(* handler, with its own userToken, graphToken, Server and tool handler     *)
(* locals; the module-level declarations (TOOLS, app, cca, GRAPH_SCOPES)    *)
(* are never assigned after start-up.  The requests in flight interleave at *)
(* their awaits.  An access token is [for, by]: the assertion it was issued *)
(* for and the request whose exchange was first given it.                   *)
(***************************************************************************)
MaxRequests == 2
Requests == 1..MaxRequests

Bearer == <<"b", "e", "a", "r", "e", "r">>

\* String.prototype.split(c)
splitOn(s, c) ==
  LET ps == {p \in 1..Len(s) : s[p] = c}
      nth(k) == IF k = 0 THEN 0
                ELSE IF k > Cardinality(ps) THEN Len(s) + 1
                ELSE CHOOSE p \in ps : Cardinality({q \in ps : q < p}) = k - 1
  IN [k \in 1..(Cardinality(ps) + 1) |-> SubSeq(s, nth(k - 1) + 1, nth(k) - 1)]

\* a reading of the header that takes whatever follows the first space
extractBearerTokenAnyScheme(authHeader) ==
  IF Len(splitOn(authHeader, " ")) >= 2
  THEN [found |-> TRUE, token |-> splitOn(authHeader, " ")[2]]
  ELSE [found |-> FALSE, token |-> <<>>]

\* extractBearerToken: found = FALSE is null; the header <<>> is a missing
\* or empty one
extractBearerToken(authHeader) ==
  IF authHeader = <<>> THEN [found |-> FALSE, token |-> <<>>]
  ELSE LET parts == splitOn(authHeader, " ")
       IN IF Len(parts) = 2 /\ toLowerCase(parts[1]) = Bearer
          THEN [found |-> TRUE, token |-> parts[2]]
          ELSE [found |-> FALSE, token |-> <<>>]

NoToken == [for |-> <<>>, by |-> 0]

\* getGraphTokenOBO: acquireTokenOnBehalfOf rejects ("rejects"), resolves to
\* null ("null") or to a result, with an access token or with an empty one
getGraphTokenOBO(answer) ==
  IF answer.kind = "rejects" \/ answer.kind = "null" \/ answer.accessToken = NoToken
  THEN [threw |-> TRUE, token |-> NoToken]
  ELSE [threw |-> FALSE, token |-> answer.accessToken]

NoItem == [owner |-> <<>>, n |-> 0]
NoTranscript == [meeting |-> NoItem, n |-> 0]
NoAnswer == [status |-> "none", value |-> <<>>]
FailedAnswer == [status |-> "failed", value |-> <<>>]
\* findMeetingsByName / listMeetings throw
Threw == [status |-> "threw", value |-> <<>>]

NoToolArgs == [meetingName |-> <<>>, includeTimestamps |-> "absent", siteUrl |-> <<>>]
NoGot == [listMeetings |-> NoAnswer, probes |-> <<NoAnswer, NoAnswer>>,
          find |-> NoAnswer, transcripts |-> NoAnswer, metadata |-> NoAnswer,
          content |-> NoAnswer, site |-> NoAnswer, upload |-> NoAnswer]

\* the activation of the route handler for one request, before the request
NoActivation ==
  [pc |-> "none", method |-> "", header |-> <<>>, userToken |-> <<>>,
   graphToken |-> NoToken, name |-> "", toolArgs |-> NoToolArgs,
   meetings |-> <<>>, transcripts |-> <<>>, pending |-> {}, hasTranscript |-> <<>>,
   calls |-> <<>>, got |-> NoGot, status |-> 0, result |-> NoResult]

HttpIdle ==
  /\ reqs = [r \in Requests |-> NoActivation]
  /\ oboLog = {}

DateIdle ==
  /\ now = 0
  /\ tz = NoZone
  /\ dateArg = <<>>
  /\ since = 0
  /\ range = NoRange
  /\ bpc = "off"

NoContentRequest == [format |-> "", accept |-> "", requests |-> 0, outcome |-> "none"]

GraphIdle ==
  /\ tool = ""
  /\ args = NoArgs
  /\ gpc = "idle"
  /\ fn = ""
  /\ fnStatus = "none"
  /\ calReq = NoRequest
  /\ calOutcome = "none"
  /\ events = <<>>
  /\ cands = <<>>
  /\ ci = 0
  /\ limit = 0
  /\ resolved = <<>>
  /\ cur = NoCall
  /\ last = NoLast
  /\ resolverCalls = 0
  /\ log = {}
  /\ meetings = <<>>
  /\ trOutcome = "none"
  /\ transcripts = <<>>
  /\ cleanText = <<>>
  /\ listCalls = 0
  /\ contentCalls = 0
  /\ contentReq = NoContentRequest
  /\ sent = <<>>
  /\ pending = {}
  /\ hasTranscript = <<>>
  /\ probeFailed = {}
  /\ result = NoResult

VttIdle ==
  /\ src = <<>>
  /\ rawVtt = <<>>
  /\ vpc = "off"
  /\ pass = 0
  /\ lines = <<>>
  /\ li = 0
  /\ skipNote = FALSE
  /\ cleanedLines = <<>>
  /\ mi = 0
  /\ merged = <<>>
  /\ currentSpeaker = <<>>
  /\ currentText = <<>>
  /\ output = <<>>
  /\ firstOutput = <<>>

(***************************************************************************)
(* cleanVttTranscript as a state machine: the line loop, then the loop of  *)
(* mergeSpeakerLines, then the flush and the join.                         *)
(***************************************************************************)
InitVtt ==
  /\ HttpIdle
  /\ src \in SeqsUpTo(LinePool, MaxLines)
  /\ rawVtt = renderVtt(src)
  /\ vpc = "call"
  /\ pass = 1
  /\ lines = <<>>
  /\ li = 1
  /\ skipNote = FALSE
  /\ cleanedLines = <<>>
  /\ mi = 1
  /\ merged = <<>>
  /\ currentSpeaker = <<>>
  /\ currentText = <<>>
  /\ output = <<>>
  /\ firstOutput = <<>>
  /\ GraphIdle
  /\ DateIdle

\* entry of cleanVttTranscript: split the text, initialise the loop
CleanBegin ==
  /\ vpc = "call"
  /\ lines' = splitLines(rawVtt)
  /\ li' = 1
  /\ skipNote' = FALSE
  /\ cleanedLines' = <<>>
  /\ mi' = 1
  /\ merged' = <<>>
  /\ currentSpeaker' = <<>>
  /\ currentText' = <<>>
  /\ vpc' = "lines"
  /\ UNCHANGED <<src, rawVtt, pass, output, firstOutput>>
  /\ UNCHANGED <<graphVars, dateVars, httpVars>>

\* one iteration of for (const line of lines)
CleanLine ==
  /\ vpc = "lines"
  /\ li <= Len(lines)
  /\ LET st == cleanLineStep(lines[li],
                 [skipNote |-> skipNote, cleanedLines |-> cleanedLines])
     IN /\ skipNote' = st.skipNote
        /\ cleanedLines' = st.cleanedLines
  /\ li' = li + 1
  /\ UNCHANGED <<src, rawVtt, vpc, pass, lines, mi, merged, currentSpeaker,
                 currentText, output, firstOutput>>
  /\ UNCHANGED <<graphVars, dateVars, httpVars>>

\* return mergeSpeakerLines(cleanedLines): its entry, with the early return
MergeBegin ==
  /\ vpc = "lines"
  /\ li > Len(lines)
  /\ IF Len(cleanedLines) = 0
     THEN /\ output' = <<>>
          /\ vpc' = "done"
     ELSE /\ output' = output
          /\ vpc' = "merge"
  /\ UNCHANGED <<src, rawVtt, pass, lines, li, skipNote, cleanedLines, mi, merged,
                 currentSpeaker, currentText, firstOutput>>
  /\ UNCHANGED <<graphVars, dateVars, httpVars>>

\* one iteration of the loop of mergeSpeakerLines
MergeLine ==
  /\ vpc = "merge"
  /\ mi <= Len(cleanedLines)
  /\ LET st == mergeLineStep(cleanedLines[mi],
                 [merged |-> merged, currentSpeaker |-> currentSpeaker,
                  currentText |-> currentText])
     IN /\ merged' = st.merged
        /\ currentSpeaker' = st.currentSpeaker
        /\ currentText' = st.currentText
  /\ mi' = mi + 1
  /\ UNCHANGED <<src, rawVtt, vpc, pass, lines, li, skipNote, cleanedLines, output,
                 firstOutput>>
  /\ UNCHANGED <<graphVars, dateVars, httpVars>>

\* flush the last speaker and join
MergeEnd ==
  /\ vpc = "merge"
  /\ mi > Len(cleanedLines)
  /\ merged' = mergeFlush([merged |-> merged, currentSpeaker |-> currentSpeaker,
                           currentText |-> currentText])
  /\ output' = joinNewline(merged')
  /\ vpc' = "done"
  /\ UNCHANGED <<src, rawVtt, pass, lines, li, skipNote, cleanedLines, mi,
                 currentSpeaker, currentText, firstOutput>>
  /\ UNCHANGED <<graphVars, dateVars, httpVars>>

\* the cleaned text is given to cleanVttTranscript again
CleanAgain ==
  /\ vpc = "done"
  /\ pass = 1
  /\ firstOutput' = output
  /\ rawVtt' = output
  /\ pass' = 2
  /\ vpc' = "call"
  /\ UNCHANGED <<src, lines, li, skipNote, cleanedLines, mi, merged, currentSpeaker,
                 currentText, output>>
  /\ UNCHANGED <<graphVars, dateVars, httpVars>>

NextVtt ==
  \/ CleanBegin
  \/ CleanLine
  \/ MergeBegin
  \/ MergeLine
  \/ MergeEnd
  \/ CleanAgain

SpecVtt == InitVtt /\ [][NextVtt]_vars


(***************************************************************************)
(* buildDateRange as a state machine                                       *)
(***************************************************************************)
MaxDay == 50

\* UTC, and a zone five hours behind UTC whose clocks go forward at 02:00
\* local time of day 20 and back at 02:00 of day 200
ZonePool ==
  {NoZone,
   [dst |-> TRUE, base |-> 0 - Hours(5), forward |-> Days(20) + Hours(7),
    back |-> Days(200) + Hours(6)]}

\* the instants new Date() reads: midnight and noon UTC of each day
NowPool == {Days(d) + Hours(h) : d \in 0..MaxDay, h \in {0, 12}}

\* no filterDate, or a day as the tools take it
FilterDatePool == {<<>>, <<"2","0","2","6","-","0","2","-","1","7">>}

InitDate ==
  /\ HttpIdle
  /\ now \in NowPool
  /\ tz \in ZonePool
  /\ dateArg \in FilterDatePool
  /\ since = 0
  /\ range = NoRange
  /\ bpc = "call"
  /\ GraphIdle
  /\ VttIdle

\* if (filterDate) return { startDT, endDT } of that day
BuildFiltered ==
  /\ bpc = "call"
  /\ dateArg # <<>>
  /\ range' = dateRangeOf(dateArg)
  /\ bpc' = "done"
  /\ UNCHANGED <<now, tz, dateArg, since>>
  /\ UNCHANGED <<vttVars, graphVars, httpVars>>

\* const since = new Date(); since.setDate(since.getDate() - 30)
BuildSince ==
  /\ bpc = "call"
  /\ dateArg = <<>>
  /\ since' = setDate(tz, now, 0 - 30)
  /\ bpc' = "ahead"
  /\ UNCHANGED <<now, tz, dateArg, range>>
  /\ UNCHANGED <<vttVars, graphVars, httpVars>>

\* const ahead = new Date(); ahead.setDate(ahead.getDate() + 7); return
BuildAhead ==
  /\ bpc = "ahead"
  /\ range' = [startDT |-> since, endDT |-> setDate(tz, now, 7)]
  /\ bpc' = "done"
  /\ UNCHANGED <<now, tz, dateArg, since>>
  /\ UNCHANGED <<vttVars, graphVars, httpVars>>

NextDate ==
  \/ BuildFiltered
  \/ BuildSince
  \/ BuildAhead

SpecDate == InitDate /\ [][NextDate]_vars

(***************************************************************************)
(* One tools/call request.  The backend is the environment: every await    *)
(* of a Graph call is a state, and the answer is chosen when it arrives.   *)
(***************************************************************************)
MaxEvents == 2

SubjectPool == {<<>>, <<"x","a","B">>, <<"c">>}
JoinUrlPool == {<<>>, <<"x">>, <<"%","4","1">>, <<"%">>}
EventPool == [subject : SubjectPool, joinUrl : JoinUrlPool]
NamePool == {<<>>, <<"A","b">>}
DatePool == {<<>>, <<"D">>}
LimitPool == {1, 60}
SitePool == {<<>>, <<"s">>}
BackendSubject == <<"z">>
TranscriptListPool == {<<>>, <<"t1">>, <<"t1", "t2">>}
VttPool == {<<>>, renderVtt(<<CueLine(<<"A">>, <<"h","i">>), CueLine(<<"A">>, <<"y","o">>)>>)}

\* the arguments each tool reads; the fields it does not read stay empty
ListArgsPool ==
  {[NoArgs EXCEPT !.meetingDate = d] : d \in DatePool}
  \cup {[NoArgs EXCEPT !.meetingDate = d, !.limitGiven = TRUE, !.limit = n] :
          d \in DatePool, n \in LimitPool}
GetArgsPool ==
  {[NoArgs EXCEPT !.meetingName = m, !.meetingDate = d] : m \in NamePool, d \in DatePool}
SaveArgsPool ==
  {[a EXCEPT !.siteUrl = u] : a \in GetArgsPool, u \in SitePool}

Failed == {[status |-> f, value |-> <<>>] : f \in GetFailures}
Ok(v) == [status |-> "ok", value |-> v]

\* the answers to GET /me/calendarView with $top = top
CalendarAnswers(top) ==
  Failed \cup {Ok(v) : v \in {w \in SeqsUpTo(EventPool, MaxEvents) : Len(w) <= top}}

BackendMeeting(url, k) == [joinWebUrl |-> url, item |-> k, subject |-> BackendSubject]

\* the answers to GET /me/onlineMeetings?$filter=JoinWebUrl eq 'url'
LookupAnswers(url) ==
  Failed \cup {Ok(<<>>), Ok(<<BackendMeeting(url, 1)>>),
               Ok(<<BackendMeeting(url, 1), BackendMeeting(url, 2)>>)}

TranscriptAnswers == Failed \cup {Ok(v) : v \in TranscriptListPool}
ContentAnswers == Failed \cup {Ok(v) : v \in VttPool}

TextResult(m) == [isError |-> FALSE, msg |-> m, text |-> <<>>, items |-> <<>>]
\* the catch of the CallToolRequestSchema handler, and the handlers' own errors
ErrorResult(m) == [isError |-> TRUE, msg |-> m, text |-> <<>>, items |-> <<>>]

Warn(t, what) == [level |-> "warn", text |-> t, about |-> what]

InitGraph ==
  /\ HttpIdle
  /\ GraphIdle
  /\ VttIdle
  /\ DateIdle

\* buildDateRange and the call of fetchCalendarEvents, up to its await
StartFetch(f, maxEvents, lim, filterDate) ==
  /\ fn' = f
  /\ fnStatus' = "running"
  /\ limit' = lim
  /\ calReq' = [filterDate |-> filterDate, maxEvents |-> maxEvents,
                 top |-> calendarTop(maxEvents)]
  /\ gpc' = "calendar"

\* first index j >= i of an event resolveCalendarEvent does not return null
\* for at once (if (!joinUrl) return null), Len(cs) + 1 when there is none
nextWithJoinUrl(cs, i) ==
  LET js == {j \in i..Len(cs) : cs[j].joinUrl # <<>>}
  IN IF js = {} THEN Len(cs) + 1 ELSE CHOOSE j \in js : \A k \in js : j <= k

\* a loop of listMeetings without the break
limitReachedNever(res, lim) == FALSE

\* listMeetings: if (resolved.length >= limit) break
limitReached(res, lim) == Len(res) >= lim

\* the resolution loop of findMeetingsByName / listMeetings in front of
\* candidate i, with res resolved so far: the function returns res, or
\* resolveOnlineMeeting is called and awaits its exact lookup
LoopHead(cs, i, res) ==
  LET j == nextWithJoinUrl(cs, i)
  IN /\ resolved' = res
     /\ IF j > Len(cs) \/ (fn = "listMeetings" /\ limitReached(res, limit))
        THEN /\ fnStatus' = "returned"
             /\ gpc' = "returned"
             /\ ci' = ci
             /\ cur' = NoCall
             /\ resolverCalls' = resolverCalls
        ELSE /\ fnStatus' = "running"
             /\ gpc' = "lookupExact"
             /\ ci' = j
             /\ cur' = [joinUrl |-> cs[j].joinUrl, lookups |-> <<cs[j].joinUrl>>]
             /\ resolverCalls' = resolverCalls + 1

\* tools/call list_recent_meetings: handleListRecentMeetings up to listMeetings'
\* first await
CallListRecentMeetings(a) ==
  /\ gpc = "idle"
  /\ tool' = "list_recent_meetings"
  /\ args' = a
  /\ LET lim == IF a.limitGiven THEN a.limit ELSE 10
         top == Min(lim, 50)
     IN StartFetch("listMeetings", Min(top * 3, 100), top, a.meetingDate)
  /\ UNCHANGED <<calOutcome, events, cands, ci, resolved, cur, last, resolverCalls,
                 log, meetings, trOutcome, transcripts, cleanText, listCalls,
                 contentCalls, contentReq, sent, pending, hasTranscript, probeFailed, result>>
  /\ UNCHANGED <<vttVars, dateVars, httpVars>>

\* the options of a call of listMeetings by another caller than the handler
OptionsPool ==
  {[topGiven |-> g, top |-> t, filterDate |-> d] :
     g \in BOOLEAN, t \in LimitPool, d \in DatePool}

\* listMeetings(accessToken, options) called directly (it is exported): up to
\* its first await; limit = options?.top ?? 10
CallListMeetings(o) ==
  /\ gpc = "idle"
  /\ tool' = "direct"
  /\ LET lim == IF o.topGiven THEN o.top ELSE 10
     IN StartFetch("listMeetings", Min(lim * 3, 100), lim, o.filterDate)
  /\ UNCHANGED <<args, calOutcome, events, cands, ci, resolved, cur, last,
                 resolverCalls, log, meetings, trOutcome, transcripts, cleanText,
                 listCalls, contentCalls, contentReq, sent, pending, hasTranscript, probeFailed, result>>
  /\ UNCHANGED <<vttVars, dateVars, httpVars>>

\* first await of findMeetingsByName
CallGetMeetingTranscript(a) ==
  /\ gpc = "idle"
  /\ tool' = "get_meeting_transcript"
  /\ args' = a
  /\ IF a.meetingName = <<>>
     THEN /\ result' = ErrorResult("meetingName is required.")
          /\ gpc' = "done"
          /\ UNCHANGED <<fn, fnStatus, limit, calReq>>
     ELSE /\ StartFetch("findMeetingsByName", 100, 0, a.meetingDate)
          /\ result' = result
  /\ UNCHANGED <<calOutcome, events, cands, ci, resolved, cur, last, resolverCalls,
                 log, meetings, trOutcome, transcripts, cleanText, listCalls,
                 contentCalls, contentReq, sent, pending, hasTranscript, probeFailed>>
  /\ UNCHANGED <<vttVars, dateVars, httpVars>>

\* tools/call save_transcript: handleSaveTranscript up to the first await of
\* findMeetingsByName; a.siteUrl is args.siteUrl || SHAREPOINT_SITE_URL || ''
CallSaveTranscript(a) ==
  /\ gpc = "idle"
  /\ tool' = "save_transcript"
  /\ args' = a
  /\ IF a.meetingName = <<>>
     THEN /\ result' = ErrorResult("meetingName is required.")
          /\ gpc' = "done"
          /\ UNCHANGED <<fn, fnStatus, limit, calReq>>
     ELSE IF a.siteUrl = <<>>
     THEN /\ result' = ErrorResult("No SharePoint site URL provided.")
          /\ gpc' = "done"
          /\ UNCHANGED <<fn, fnStatus, limit, calReq>>
     ELSE /\ StartFetch("findMeetingsByName", 100, 0, a.meetingDate)
          /\ result' = result
  /\ UNCHANGED <<calOutcome, events, cands, ci, resolved, cur, last, resolverCalls,
                 log, meetings, trOutcome, transcripts, cleanText, listCalls,
                 contentCalls, contentReq, sent, pending, hasTranscript, probeFailed>>
  /\ UNCHANGED <<vttVars, dateVars, httpVars>>

\* tools/call with a name that is no tool: the default branch of the switch
CallUnknownTool ==
  /\ gpc = "idle"
  /\ tool' = "unknown"
  /\ result' = ErrorResult("Unknown tool: ")
  /\ gpc' = "done"
  /\ UNCHANGED <<args, fn, fnStatus, calReq, calOutcome, events, cands, ci, limit,
                 resolved, cur, last, resolverCalls, log, meetings, trOutcome,
                 transcripts, cleanText, listCalls, contentCalls, contentReq, sent, pending,
                 hasTranscript, probeFailed>>
  /\ UNCHANGED <<vttVars, dateVars, httpVars>>

\* the calendarView request settles: the rest of fetchCalendarEvents, the
\* filter of the caller, and the loop up to its first await (or the return)
CalendarResponse(answer) ==
  /\ gpc = "calendar"
  /\ LET fetched == fetchCalendarEvents(answer)
         cs == IF fn = "findMeetingsByName"
               THEN nameMatchesOf(fetched.events, args.meetingName)
               ELSE teamsMeetingsOf(fetched.events)
     IN /\ calOutcome' = answer.status
        /\ events' = fetched.events
        /\ cands' = cs
        /\ log' = log \cup fetched.logged
                  \cup (IF fn = "findMeetingsByName" /\ Len(cs) = 0
                        THEN {Warn("No name match", "findMeetingsByName")} ELSE {})
        /\ LoopHead(cs, 1, <<>>)
  /\ UNCHANGED <<tool, args, fn, calReq, limit, last, meetings, trOutcome,
                 transcripts, cleanText, listCalls, contentCalls, contentReq, sent, pending,
                 hasTranscript, probeFailed, result>>
  /\ UNCHANGED <<vttVars, dateVars, httpVars>>

EndedCall(ret, matched, meeting) ==
  [joinUrl |-> cur.joinUrl, lookups |-> cur.lookups, ret |-> ret,
   matched |-> matched, meeting |-> meeting, event |-> cands[ci]]

\* a loop that puts each meeting in front of the ones it has
pushResolvedFront(res, meeting) == <<meeting>> \o res

\* if (meeting) { resolved.push(meeting) }
pushResolved(res, meeting) == Append(res, meeting)

\* resolveOnlineMeeting returns null: its warning and resolveCalendarEvent's
NotResolved ==
  {Warn("Could not resolve onlineMeeting", "resolveOnlineMeeting"),
   Warn("Resolution failed", "resolveCalendarEvent")}

\* the exact lookup of resolveOnlineMeeting settles
ExactLookupResponse(answer) ==
  /\ gpc = "lookupExact"
  /\ LET r == tryResolveByJoinUrl(answer)
         next == afterExactMiss(cur.joinUrl)
     IN IF r.found
        THEN /\ last' = EndedCall("meeting", 1, r.meeting)
             /\ log' = log \cup r.logged
             /\ LoopHead(cands, ci + 1,
                         pushResolved(resolved, withCalendarSubject(r.meeting, cands[ci])))
        ELSE IF next = "throw"
        THEN /\ last' = EndedCall("throw", 0, NoMeeting)
             /\ log' = log \cup r.logged
             /\ fnStatus' = "threw"
             /\ gpc' = "returned"
             /\ cur' = NoCall
             /\ UNCHANGED <<ci, resolved, resolverCalls>>
        ELSE IF next = "retry"
        THEN /\ cur' = [cur EXCEPT !.lookups =
                          Append(@, decodeURIComponent(cur.joinUrl).value)]
             /\ log' = log \cup r.logged
             /\ gpc' = "lookupDecoded"
             /\ UNCHANGED <<last, fnStatus, ci, resolved, resolverCalls>>
        ELSE /\ last' = EndedCall("null", 0, NoMeeting)
             /\ log' = log \cup r.logged \cup NotResolved
             /\ LoopHead(cands, ci + 1, resolved)
  /\ UNCHANGED <<tool, args, fn, calReq, calOutcome, events, cands, limit, meetings,
                 trOutcome, transcripts, cleanText, listCalls, contentCalls, contentReq, sent, pending,
                 hasTranscript, probeFailed, result>>
  /\ UNCHANGED <<vttVars, dateVars, httpVars>>

\* the lookup of the decoded URL settles
DecodedLookupResponse(answer) ==
  /\ gpc = "lookupDecoded"
  /\ LET r == tryResolveByJoinUrl(answer)
     IN IF r.found
        THEN /\ last' = EndedCall("meeting", 2, r.meeting)
             /\ log' = log \cup r.logged
             /\ LoopHead(cands, ci + 1,
                         pushResolved(resolved, withCalendarSubject(r.meeting, cands[ci])))
        ELSE /\ last' = EndedCall("null", 0, NoMeeting)
             /\ log' = log \cup r.logged \cup NotResolved
             /\ LoopHead(cands, ci + 1, resolved)
  /\ UNCHANGED <<tool, args, fn, calReq, calOutcome, events, cands, limit, meetings,
                 trOutcome, transcripts, cleanText, listCalls, contentCalls, contentReq, sent, pending,
                 hasTranscript, probeFailed, result>>
  /\ UNCHANGED <<vttVars, dateVars, httpVars>>

\* findMeetingsByName / listMeetings threw: the handler does not catch, the
\* CallToolRequestSchema handler does
HandlerCatch ==
  /\ gpc = "returned"
  /\ tool # "direct"
  /\ fnStatus = "threw"
  /\ result' = ErrorResult("Error: URI malformed")
  /\ gpc' = "done"
  /\ UNCHANGED <<tool, args, fn, fnStatus, calReq, calOutcome, events, cands, ci,
                 limit, resolved, cur, last, resolverCalls, log, meetings, trOutcome,
                 transcripts, cleanText, listCalls, contentCalls, contentReq, sent, pending,
                 hasTranscript, probeFailed>>
  /\ UNCHANGED <<vttVars, dateVars, httpVars>>

\* findMeetingsByName returned: handleGetMeetingTranscript / handleSaveTranscript
\* up to the await of listTranscripts
AfterFindMeetingsByName ==
  /\ gpc = "returned"
  /\ fnStatus = "returned"
  /\ fn = "findMeetingsByName"
  /\ meetings' = resolved
  /\ events' = <<>>
  /\ cands' = <<>>
  /\ last' = NoLast
  /\ IF Len(resolved) = 0
     THEN /\ result' = TextResult("No meeting found matching")
          /\ gpc' = "done"
          /\ listCalls' = listCalls
          /\ sent' = sent
     ELSE /\ result' = result
          /\ gpc' = "transcripts"
          /\ listCalls' = listCalls + 1
          /\ sent' = Append(sent, [op |-> "listTranscripts",
                                   meeting |-> canonical(resolved), transcript |-> ""])
  /\ UNCHANGED <<tool, args, fn, fnStatus, calReq, calOutcome, ci, limit, resolved,
                 cur, resolverCalls, log, trOutcome, transcripts, cleanText,
                 contentCalls, contentReq, pending, hasTranscript, probeFailed>>
  /\ UNCHANGED <<vttVars, dateVars, httpVars>>

\* listMeetings returned: handleListRecentMeetings up to Promise.all, every
\* probe having called listTranscripts
AfterListMeetings ==
  /\ gpc = "returned"
  /\ tool = "list_recent_meetings"
  /\ fnStatus = "returned"
  /\ fn = "listMeetings"
  /\ meetings' = resolved
  /\ events' = <<>>
  /\ cands' = <<>>
  /\ last' = NoLast
  /\ IF Len(resolved) = 0
     THEN /\ result' = TextResult(IF args.meetingDate # <<>>
                                  THEN "No meetings found for "
                                  ELSE "No recent meetings found.")
          /\ gpc' = "done"
          /\ UNCHANGED <<listCalls, pending, hasTranscript, probeFailed>>
     ELSE /\ result' = result
          /\ gpc' = "probes"
          /\ listCalls' = listCalls + Len(resolved)
          /\ pending' = 1..Len(resolved)
          /\ hasTranscript' = [i \in 1..Len(resolved) |-> FALSE]
          /\ probeFailed' = {}
  /\ UNCHANGED <<tool, args, fn, fnStatus, calReq, calOutcome, ci, limit, resolved,
                 cur, resolverCalls, log, trOutcome, transcripts, cleanText,
                 contentCalls, contentReq, sent>>
  /\ UNCHANGED <<vttVars, dateVars, httpVars>>

listingItem(m, available) ==
  [subject |-> IF m.subject # <<>> THEN m.subject
               ELSE <<"(","N","o"," ","s","u","b","j","e","c","t",")">>,
   joinWebUrl |-> m.joinWebUrl, item |-> m.item, hasTranscript |-> available]

\* a probe whose catch lets the failure of listTranscripts out
probeTranscriptUncaught(r) == [threw |-> r.threw, has |-> Len(r.value) > 0]

\* the probe of one meeting: try { hasTranscript = transcripts.length > 0 }
\* catch { }
probeTranscript(r) == [threw |-> FALSE, has |-> ~r.threw /\ Len(r.value) > 0]

\* the listTranscripts call of the probe of meeting i settles and its callback
\* returns; a callback that throws rejects Promise.all, the last one to
\* return completes it and the handler builds the listing
ProbeResponse(i, answer) ==
  /\ gpc = "probes"
  /\ i \in pending
  /\ probeFailed' = IF listTranscripts(answer).threw
                    THEN probeFailed \cup {i} ELSE probeFailed
  /\ LET p == probeTranscript(listTranscripts(answer))
     IN IF p.threw
        THEN /\ result' = ErrorResult("Error: Graph API")
             /\ gpc' = "done"
             /\ UNCHANGED <<hasTranscript, pending>>
        ELSE /\ hasTranscript' = [hasTranscript EXCEPT ![i] = p.has]
             /\ pending' = pending \ {i}
             /\ IF pending' = {}
                THEN /\ result' = [isError |-> FALSE, msg |-> "listing", text |-> <<>>,
                                   items |-> [k \in 1..Len(meetings) |->
                                                listingItem(meetings[k],
                                                            hasTranscript'[k])]]
                     /\ gpc' = "done"
                ELSE UNCHANGED <<result, gpc>>
  /\ UNCHANGED <<tool, args, fn, fnStatus, calReq, calOutcome, events, cands, ci,
                 limit, resolved, cur, last, resolverCalls, log, meetings, trOutcome,
                 transcripts, cleanText, listCalls, contentCalls, contentReq, sent>>
  /\ UNCHANGED <<vttVars, dateVars, httpVars>>

\* listTranscripts(graphToken, meeting.id) of get_meeting_transcript /
\* save_transcript settles
TranscriptsResponse(answer) ==
  /\ gpc = "transcripts"
  /\ trOutcome' = answer.status
  /\ LET r == listTranscripts(answer)
     IN IF r.threw
        THEN /\ result' = ErrorResult("Error: Graph API")
             /\ gpc' = "done"
             /\ UNCHANGED <<transcripts, contentCalls, contentReq, sent>>
        ELSE /\ transcripts' = r.value
             /\ IF noTranscripts(r.value)
                THEN /\ result' = TextResult("was found but has no transcript available")
                     /\ gpc' = "done"
                     /\ UNCHANGED <<contentCalls, contentReq, sent>>
                ELSE /\ result' = result
                     /\ gpc' = "content"
                     /\ contentCalls' = contentCalls + 1
                     /\ contentReq' = contentRequest(contentReq)
                     /\ sent' = Append(sent, [op |-> "getTranscriptContent",
                                              meeting |-> canonical(meetings),
                                              transcript |-> IF r.value = <<>> THEN ""
                                                             ELSE canonical(r.value)])
  /\ UNCHANGED <<tool, args, fn, fnStatus, calReq, calOutcome, events, cands, ci,
                 limit, resolved, cur, last, resolverCalls, log, meetings, cleanText,
                 listCalls, pending, hasTranscript, probeFailed>>
  /\ UNCHANGED <<vttVars, dateVars, httpVars>>

\* getTranscriptContent settles: the text is cleaned; get_meeting_transcript
\* returns it, save_transcript goes on to resolveSiteId
ContentResponse(answer) ==
  /\ gpc = "content"
  /\ contentReq' = [contentReq EXCEPT !.outcome = answer.status]
  /\ LET r == getTranscriptContent(answer)
     IN IF r.threw
        THEN /\ result' = ErrorResult("Error: Graph API")
             /\ gpc' = "done"
             /\ cleanText' = cleanText
        ELSE /\ cleanText' = cleanVttTranscript(r.text)
             /\ IF tool = "save_transcript"
                THEN /\ result' = result
                     /\ gpc' = "site"
                ELSE /\ result' = [isError |-> FALSE, msg |-> "Meeting: ",
                                   text |-> cleanText', items |-> <<>>]
                     /\ gpc' = "done"
  /\ UNCHANGED <<tool, args, fn, fnStatus, calReq, calOutcome, events, cands, ci,
                 limit, resolved, cur, last, resolverCalls, log, meetings, trOutcome,
                 transcripts, listCalls, contentCalls, sent, pending, hasTranscript,
                 probeFailed>>
  /\ UNCHANGED <<vttVars, dateVars, httpVars>>

\* save_transcript: resolveSiteId settles
SiteResponse(ok) ==
  /\ gpc = "site"
  /\ IF ok
     THEN /\ gpc' = "upload"
          /\ result' = result
     ELSE /\ result' = ErrorResult("Error: Graph API")
          /\ gpc' = "done"
  /\ UNCHANGED <<tool, args, fn, fnStatus, calReq, calOutcome, events, cands, ci,
                 limit, resolved, cur, last, resolverCalls, log, meetings, trOutcome,
                 transcripts, cleanText, listCalls, contentCalls, contentReq, sent, pending,
                 hasTranscript, probeFailed>>
  /\ UNCHANGED <<vttVars, dateVars, httpVars>>

\* save_transcript: uploadToSharePoint settles
UploadResponse(ok) ==
  /\ gpc = "upload"
  /\ result' = IF ok
               THEN [isError |-> FALSE, msg |-> "Saved to SharePoint",
                     text |-> cleanText, items |-> <<>>]
               ELSE ErrorResult("Error: Graph API")
  /\ gpc' = "done"
  /\ UNCHANGED <<tool, args, fn, fnStatus, calReq, calOutcome, events, cands, ci,
                 limit, resolved, cur, last, resolverCalls, log, meetings, trOutcome,
                 transcripts, cleanText, listCalls, contentCalls, contentReq, sent, pending,
                 hasTranscript, probeFailed>>
  /\ UNCHANGED <<vttVars, dateVars, httpVars>>

NextGraph ==
  \/ gpc = "idle" /\ \E a \in ListArgsPool : CallListRecentMeetings(a)
  \/ gpc = "idle" /\ \E a \in GetArgsPool : CallGetMeetingTranscript(a)
  \/ gpc = "idle" /\ \E a \in SaveArgsPool : CallSaveTranscript(a)
  \/ CallUnknownTool
  \/ gpc = "idle" /\ \E o \in OptionsPool : CallListMeetings(o)
  \/ gpc = "calendar"
       /\ \E answer \in CalendarAnswers(calReq.top) : CalendarResponse(answer)
  \/ gpc = "lookupExact"
       /\ \E answer \in LookupAnswers(cur.lookups[1]) : ExactLookupResponse(answer)
  \/ gpc = "lookupDecoded"
       /\ \E answer \in LookupAnswers(cur.lookups[2]) : DecodedLookupResponse(answer)
  \/ HandlerCatch
  \/ AfterFindMeetingsByName
  \/ AfterListMeetings
  \/ gpc = "probes"
       /\ \E i \in pending, answer \in TranscriptAnswers : ProbeResponse(i, answer)
  \/ gpc = "transcripts"
       /\ \E answer \in TranscriptAnswers : TranscriptsResponse(answer)
  \/ gpc = "content" /\ \E answer \in ContentAnswers : ContentResponse(answer)
  \/ gpc = "site" /\ \E ok \in BOOLEAN : SiteResponse(ok)
  \/ gpc = "upload" /\ \E ok \in BOOLEAN : UploadResponse(ok)

SpecGraph == InitGraph /\ [][NextGraph]_vars

\* a handler that reads the Graph token of the first request
graphTokenOfFirst(r) == reqs[1].graphToken

\* let graphToken: the handlers registered for request r close over it
graphTokenOf(r) == reqs[r].graphToken

\* a Graph call as it leaves the server
Call(r, op, meeting, transcript) ==
  [op |-> op, token |-> graphTokenOf(r), meeting |-> meeting, transcript |-> transcript]

\* res.status(status).json(...) / the response the transport writes
Respond(q, status, body) ==
  [q EXCEPT !.pc = "responded", !.status = status, !.result = body]

Await(q, pc, call) == [q EXCEPT !.pc = pc, !.calls = Append(@, call)]

\* args.includeTimestamps === true for every value that is given
includeTimestampsIfGiven(a) == a.includeTimestamps # "absent"

\* const includeTimestamps = args.includeTimestamps === true
includeTimestampsOf(a) == a.includeTimestamps = "true"

\* a search that keeps what it found for the requests that come later
meetingsFoundOrCached(r, answer) ==
  IF \E o \in Requests : o # r /\ reqs[o].meetings # <<>>
  THEN reqs[CHOOSE o \in Requests : o # r /\ reqs[o].meetings # <<>>].meetings
  ELSE answer.value

\* const meetings = await findMeetingsByName(...) / listMeetings(...)
meetingsFound(r, answer) == answer.value

FallbackNote ==
  <<"(", "N", "o", "t", "e", ":", " ", "t", "i", "m", "e", "s", "t", "a",
      "m", "p", "e", "d", " ", "m", "e", "t", "a", "d", "a", "t", "a", " ",
      "w", "a", "s", " ", "u", "n", "a", "v", "a", "i", "l", "a", "b", "l",
      "e", ";", " ", "f", "a", "l", "l", "i", "n", "g", " ", "b", "a", "c",
      "k", " ", "t", "o", " ", "s", "t", "a", "n", "d", "a", "r", "d", " ",
      "t", "r", "a", "n", "s", "c", "r", "i", "p", "t", ".", ")",
    "\n", "\n">>

TimestampedText == <<"[", "0", "0", ":", "0", "1", "]", " ", "A", ":", " ", "h", "i">>

TextOf(m, text) == [isError |-> FALSE, msg |-> "Meeting: ", text |-> text, items |-> <<m>>]

\* the catch of the CallToolRequestSchema handler without its return: the
\* error goes on to the catch of the route handler
toolFailedUncaught(q, message) == Respond(q, 500, NoResult)

\* catch (err) { return { content: 'Error: ' + err.message, isError: true } }
toolFailed(q, message) == Respond(q, 200, ErrorResult(message))

HeaderPool ==
  {<<>>,
   <<"B","e","a","r","e","r"," ","u">>,
   <<"b","e","a","r","e","r"," ","v">>,
   <<"B","a","s","i","c"," ","u">>,
   <<"B","e","a","r","e","r"," ">>,
   <<"B","e","a","r","e","r"," ","u"," ","x">>,
   <<"u">>}

ToolNamePool ==
  {"list_recent_meetings", "get_meeting_transcript", "save_transcript", "delete_meeting"}

ToolArgsPool(name) ==
  IF name = "get_meeting_transcript"
  THEN {NoToolArgs}
       \cup {[NoToolArgs EXCEPT !.meetingName = <<"n">>, !.includeTimestamps = t] :
               t \in {"absent", "false", "true"}}
  ELSE IF name = "save_transcript"
  THEN {[NoToolArgs EXCEPT !.siteUrl = <<"s">>],
        [NoToolArgs EXCEPT !.meetingName = <<"n">>],
        [NoToolArgs EXCEPT !.meetingName = <<"n">>, !.siteUrl = <<"s">>]}
  ELSE {NoToolArgs}

\* what acquireTokenOnBehalfOf can give request r: a failure, a new token for
\* the assertion, or a token it gave before for the same assertion
OboAnswers(r) ==
  {[kind |-> "rejects", accessToken |-> NoToken],
   [kind |-> "null", accessToken |-> NoToken],
   [kind |-> "result", accessToken |-> NoToken],
   [kind |-> "result", accessToken |-> [for |-> reqs[r].userToken, by |-> r]]}
  \cup {[kind |-> "result", accessToken |-> x.token] :
          x \in {y \in oboLog : y.assertion = reqs[r].userToken /\ y.token # NoToken}}

\* the backend answers with the data of the user the token was issued for
MeetingsOf(t) == <<[owner |-> t.for, n |-> 1], [owner |-> t.for, n |-> 2]>>
TranscriptsOf(m) == <<[meeting |-> m, n |-> 1], [meeting |-> m, n |-> 2]>>

SearchAnswers(t) == {Threw, Ok(<<>>), Ok(MeetingsOf(t))}
ListingAnswers(m) == {FailedAnswer, Ok(<<>>), Ok(TranscriptsOf(m))}
ProbeAnswers(m) == {FailedAnswer, Ok(<<>>), Ok(<<[meeting |-> m, n |-> 1]>>)}
DownloadAnswers ==
  {FailedAnswer, Ok(renderVtt(<<CueLine(<<"A">>, <<"h","i">>), CueLine(<<"A">>, <<"y","o">>)>>))}
\* the metadata request fails, or its body does not parse, or it parses
MetadataAnswers == {FailedAnswer, Ok(<<"?">>), Ok(TimestampedText)}

InitHttp ==
  /\ HttpIdle
  /\ GraphIdle
  /\ VttIdle
  /\ DateIdle

\* app.post('/mcp'): up to the await of getGraphTokenOBO
HttpPost(r, header) ==
  /\ reqs[r].pc = "none"
  /\ LET q == [reqs[r] EXCEPT !.method = "POST", !.header = header]
         userToken == extractBearerToken(header)
     IN reqs' = [reqs EXCEPT ![r] =
                  IF ~userToken.found \/ userToken.token = <<>>
                  THEN Respond(q, 401, NoResult)
                  ELSE [q EXCEPT !.userToken = userToken.token, !.pc = "obo"]]
  /\ UNCHANGED oboLog
  /\ UNCHANGED <<vttVars, graphVars, dateVars>>

\* app.get('/mcp') and app.delete('/mcp')
HttpGetOrDelete(r, method, header) ==
  /\ reqs[r].pc = "none"
  /\ reqs' = [reqs EXCEPT ![r] =
               Respond([@ EXCEPT !.method = method, !.header = header], 405, NoResult)]
  /\ UNCHANGED oboLog
  /\ UNCHANGED <<vttVars, graphVars, dateVars>>

\* getGraphTokenOBO settles: 403, or the Server is made and connected and
\* transport.handleRequest is awaited
OboSettles(r, answer) ==
  /\ reqs[r].pc = "obo"
  /\ LET o == getGraphTokenOBO(answer)
     IN /\ oboLog' = oboLog \cup {[by |-> r, assertion |-> reqs[r].userToken,
                                   token |-> o.token]}
        /\ reqs' = [reqs EXCEPT ![r] =
                     IF o.threw THEN Respond(@, 403, NoResult)
                     ELSE [@ EXCEPT !.graphToken = o.token, !.pc = "connected"]]
  /\ UNCHANGED <<vttVars, graphVars, dateVars>>

\* server.connect or transport.handleRequest throws: the catch of the route
\* handler
TransportThrows(r) ==
  /\ reqs[r].pc = "connected"
  /\ reqs' = [reqs EXCEPT ![r] = Respond(@, 500, NoResult)]
  /\ UNCHANGED oboLog
  /\ UNCHANGED <<vttVars, graphVars, dateVars>>

\* the body is a tools/list request: no tool handler runs
ListTools(r) ==
  /\ reqs[r].pc = "connected"
  /\ reqs' = [reqs EXCEPT ![r] = Respond([@ EXCEPT !.name = "tools/list"], 200, NoResult)]
  /\ UNCHANGED oboLog
  /\ UNCHANGED <<vttVars, graphVars, dateVars>>

\* the body is a tools/call request: the CallToolRequestSchema handler and
\* the tool handler it selects, up to the first await
ToolsCall(r, name, a) ==
  /\ reqs[r].pc = "connected"
  /\ LET q == [reqs[r] EXCEPT !.name = name, !.toolArgs = a]
     IN reqs' = [reqs EXCEPT ![r] =
          IF name = "list_recent_meetings"
          THEN Await(q, "listMeetings", Call(r, "listMeetings", NoItem, NoTranscript))
          ELSE IF name \in {"get_meeting_transcript", "save_transcript"}
          THEN IF a.meetingName = <<>>
               THEN Respond(q, 200, ErrorResult("meetingName is required."))
               ELSE IF name = "save_transcript" /\ a.siteUrl = <<>>
               THEN Respond(q, 200, ErrorResult("No SharePoint site URL provided."))
               ELSE Await(q, "find", Call(r, "findMeetingsByName", NoItem, NoTranscript))
          ELSE Respond(q, 200, ErrorResult("Unknown tool: "))]
  /\ UNCHANGED oboLog
  /\ UNCHANGED <<vttVars, graphVars, dateVars>>

\* handleListRecentMeetings: listMeetings settles; Promise.all starts one
\* probe per meeting
ListMeetingsSettles(r, answer) ==
  /\ reqs[r].pc = "listMeetings"
  /\ LET q == [reqs[r] EXCEPT !.got.listMeetings = answer]
         ms == meetingsFound(r, answer)
     IN reqs' = [reqs EXCEPT ![r] =
          IF answer = Threw THEN toolFailed(q, "Error: URI malformed")
          ELSE IF Len(ms) = 0 THEN Respond(q, 200, TextResult("No recent meetings found."))
          ELSE [q EXCEPT !.meetings = ms,
                         !.pc = "probes",
                         !.pending = 1..Len(ms),
                         !.hasTranscript = [k \in 1..Len(ms) |-> FALSE],
                         !.calls = @ \o [k \in 1..Len(ms) |->
                                           Call(r, "listTranscripts", ms[k], NoTranscript)]]]
  /\ UNCHANGED oboLog
  /\ UNCHANGED <<vttVars, graphVars, dateVars>>

\* the probe of meeting k settles; the last one completes the listing
ProbeSettles(r, k, answer) ==
  /\ reqs[r].pc = "probes"
  /\ k \in reqs[r].pending
  /\ LET q == [reqs[r] EXCEPT !.got.probes[k] = answer,
                             !.pending = @ \ {k},
                             !.hasTranscript[k] = probeTranscript(listTranscripts(answer)).has]
     IN reqs' = [reqs EXCEPT ![r] =
          IF q.pending = {}
          THEN Respond(q, 200,
                 [isError |-> FALSE, msg |-> "listing", text |-> <<>>,
                  items |-> [j \in 1..Len(q.meetings) |->
                               [meeting |-> q.meetings[j],
                                hasTranscript |-> q.hasTranscript[j]]]])
          ELSE q]
  /\ UNCHANGED oboLog
  /\ UNCHANGED <<vttVars, graphVars, dateVars>>

\* handleGetMeetingTranscript / handleSaveTranscript: findMeetingsByName
\* settles
FindSettles(r, answer) ==
  /\ reqs[r].pc = "find"
  /\ LET q == [reqs[r] EXCEPT !.got.find = answer]
         ms == meetingsFound(r, answer)
     IN reqs' = [reqs EXCEPT ![r] =
          IF answer = Threw THEN toolFailed(q, "Error: URI malformed")
          ELSE IF Len(ms) = 0 THEN Respond(q, 200, TextResult(NoMeetingMessage))
          ELSE Await([q EXCEPT !.meetings = ms], "transcripts",
                     Call(r, "listTranscripts", canonical(ms), NoTranscript))]
  /\ UNCHANGED oboLog
  /\ UNCHANGED <<vttVars, graphVars, dateVars>>

\* listTranscripts settles
TranscriptsSettles(r, answer) ==
  /\ reqs[r].pc = "transcripts"
  /\ LET q == [reqs[r] EXCEPT !.got.transcripts = answer]
         ts == listTranscripts(answer)
         meeting == canonical(q.meetings)
     IN reqs' = [reqs EXCEPT ![r] =
          IF ts.threw THEN toolFailed(q, "Error: Graph API")
          ELSE IF noTranscripts(ts.value) THEN Respond(q, 200, TextResult(NoTranscriptMessage))
          ELSE IF q.name = "get_meeting_transcript" /\ includeTimestampsOf(q.toolArgs)
          THEN Await([q EXCEPT !.transcripts = ts.value], "metadata",
                     Call(r, "getTranscriptMetadataContent", meeting, canonical(ts.value)))
          ELSE Await([q EXCEPT !.transcripts = ts.value], "content",
                     Call(r, "getTranscriptContent", meeting, canonical(ts.value)))]
  /\ UNCHANGED oboLog
  /\ UNCHANGED <<vttVars, graphVars, dateVars>>

\* the try block of includeTimestamps ends: getTranscriptMetadataContent
\* rejects or parseMetadataContent throws (the catch block downloads the
\* standard content), or the timestamped text is returned
MetadataSettles(r, answer) ==
  /\ reqs[r].pc = "metadata"
  /\ LET q == [reqs[r] EXCEPT !.got.metadata = answer]
         meeting == canonical(q.meetings)
     IN reqs' = [reqs EXCEPT ![r] =
          IF answer.status = "ok" /\ answer.value = TimestampedText
          THEN Respond(q, 200, TextOf(meeting, TimestampedText))
          ELSE Await(q, "content",
                     Call(r, "getTranscriptContent", meeting, canonical(q.transcripts)))]
  /\ UNCHANGED oboLog
  /\ UNCHANGED <<vttVars, graphVars, dateVars>>

\* getTranscriptContent settles, in the catch block of includeTimestamps or
\* on the standard path
ContentSettles(r, answer) ==
  /\ reqs[r].pc = "content"
  /\ LET q == [reqs[r] EXCEPT !.got.content = answer]
         rawText == getTranscriptContent(answer)
         meeting == canonical(q.meetings)
     IN reqs' = [reqs EXCEPT ![r] =
          IF rawText.threw THEN toolFailed(q, "Error: Graph API")
          ELSE IF q.name = "save_transcript"
          THEN Await(q, "site", Call(r, "resolveSiteId", NoItem, NoTranscript))
          ELSE IF q.got.metadata # NoAnswer
          THEN Respond(q, 200, TextOf(meeting, FallbackNote \o cleanVttTranscript(rawText.text)))
          ELSE Respond(q, 200, TextOf(meeting, cleanVttTranscript(rawText.text)))]
  /\ UNCHANGED oboLog
  /\ UNCHANGED <<vttVars, graphVars, dateVars>>

\* handleSaveTranscript: resolveSiteId settles
SiteSettles(r, answer) ==
  /\ reqs[r].pc = "site"
  /\ LET q == [reqs[r] EXCEPT !.got.site = answer]
     IN reqs' = [reqs EXCEPT ![r] =
          IF answer = FailedAnswer THEN toolFailed(q, "Error: Graph API")
          ELSE Await(q, "upload", Call(r, "uploadToSharePoint", canonical(q.meetings),
                                       NoTranscript))]
  /\ UNCHANGED oboLog
  /\ UNCHANGED <<vttVars, graphVars, dateVars>>

\* handleSaveTranscript: uploadToSharePoint settles
UploadSettles(r, answer) ==
  /\ reqs[r].pc = "upload"
  /\ LET q == [reqs[r] EXCEPT !.got.upload = answer]
     IN reqs' = [reqs EXCEPT ![r] =
          IF answer = FailedAnswer THEN toolFailed(q, "Error: Graph API")
          ELSE Respond(q, 200,
                 [isError |-> FALSE, msg |-> "Saved to SharePoint",
                  text |-> cleanVttTranscript(q.got.content.value),
                  items |-> <<canonical(q.meetings)>>])]
  /\ UNCHANGED oboLog
  /\ UNCHANGED <<vttVars, graphVars, dateVars>>

NextHttp ==
  \/ \E r \in Requests, header \in HeaderPool : HttpPost(r, header)
  \/ \E r \in Requests, method \in {"GET", "DELETE"}, header \in HeaderPool :
       HttpGetOrDelete(r, method, header)
  \/ \E r \in Requests : reqs[r].pc = "obo" /\ \E answer \in OboAnswers(r) : OboSettles(r, answer)
  \/ \E r \in Requests : TransportThrows(r)
  \/ \E r \in Requests : ListTools(r)
  \/ \E r \in Requests, name \in ToolNamePool :
       \E a \in ToolArgsPool(name) : ToolsCall(r, name, a)
  \/ \E r \in Requests : reqs[r].pc = "listMeetings"
       /\ \E answer \in SearchAnswers(reqs[r].graphToken) : ListMeetingsSettles(r, answer)
  \/ \E r \in Requests : reqs[r].pc = "probes"
       /\ \E k \in reqs[r].pending :
            \E answer \in ProbeAnswers(reqs[r].meetings[k]) : ProbeSettles(r, k, answer)
  \/ \E r \in Requests : reqs[r].pc = "find"
       /\ \E answer \in SearchAnswers(reqs[r].graphToken) : FindSettles(r, answer)
  \/ \E r \in Requests : reqs[r].pc = "transcripts"
       /\ \E answer \in ListingAnswers(reqs[r].meetings[1]) : TranscriptsSettles(r, answer)
  \/ \E r \in Requests, answer \in MetadataAnswers : MetadataSettles(r, answer)
  \/ \E r \in Requests, answer \in DownloadAnswers : ContentSettles(r, answer)
  \/ \E r \in Requests, answer \in {FailedAnswer, Ok(<<>>)} : SiteSettles(r, answer)
  \/ \E r \in Requests, answer \in {FailedAnswer, Ok(<<>>)} : UploadSettles(r, answer)

SpecHttp == InitHttp /\ [][NextHttp]_vars

\* the state machine computes the function the handlers call
StepsAgreeWithFunction ==
  vpc = "done" => output = cleanVttTranscript(rawVtt)

(***************************************************************************)
(* Properties                                                              *)
(***************************************************************************)
\* the subject contains the name, compared character by character without case
SubjectMatches(e) ==
  \E i \in 0..(Len(e.subject) - Len(args.meetingName)) :
    \A k \in 1..Len(args.meetingName) :
      toLowerChar(e.subject[i + k]) = toLowerChar(args.meetingName[k])

InFindMeetingsByName ==
  fn = "findMeetingsByName" /\ gpc \in {"lookupExact", "lookupDecoded", "returned"}

\* C1 as claimed: when findMeetingsByName returns, resolveOnlineMeeting has been
\* called exactly N times, N the number of fetched events whose subject
\* matches the name.
C1_CallsEqualSubjectMatches ==
  (InFindMeetingsByName /\ gpc = "returned" /\ fnStatus = "returned")
    => resolverCalls = Len(SelectSeq(events, SubjectMatches))

\* the events that pass the filter of findMeetingsByName: matching subject and
\* a join URL
C1_Survivors == SelectSeq(events, LAMBDA e : SubjectMatches(e) /\ e.joinUrl # <<>>)

\* C1 amended: resolveOnlineMeeting is called only for the events whose subject
\* matches and which carry a join URL, in calendar order, once each: never
\* more often than there are such events, exactly that often when
\* findMeetingsByName returns, and not at all (the result being empty) when
\* there is none.
C1_CallsEqualSurvivors ==
  InFindMeetingsByName =>
    /\ resolverCalls <= Len(C1_Survivors)
    /\ gpc # "returned" => cur.joinUrl = C1_Survivors[resolverCalls].joinUrl
    /\ (gpc = "returned" /\ fnStatus = "returned") => resolverCalls = Len(C1_Survivors)
    /\ Len(C1_Survivors) = 0 =>
         gpc = "returned" /\ fnStatus = "returned" /\ resolved = <<>> /\ resolverCalls = 0

\* a search over a matching event and a non-matching one, both with a join
\* URL, has returned after one resolver call
C1_Witness ==
  /\ InFindMeetingsByName /\ gpc = "returned" /\ fnStatus = "returned"
  /\ resolverCalls = 1
  /\ \E i \in 1..Len(events) : ~SubjectMatches(events[i]) /\ events[i].joinUrl # <<>>

\* C2 as claimed: a call of resolveOnlineMeeting ends with a meeting or with
\* null, it never throws.
C2_ResolveNeverThrows == last.ret # "throw"

\* the lookups of one resolveOnlineMeeting call: the exact URL first, and then
\* at most the decoded URL, which differs from it
LookupsInOrder(c) ==
  /\ Len(c.lookups) <= 2
  /\ Len(c.lookups) >= 1 => c.lookups[1] = c.joinUrl
  /\ Len(c.lookups) = 2 =>
       /\ decodeURIComponent(c.joinUrl).ok
       /\ c.lookups[2] = decodeURIComponent(c.joinUrl).value
       /\ c.lookups[2] # c.joinUrl

\* C3: resolveOnlineMeeting looks up the exact URL first and the decoded URL
\* only after the exact lookup found nothing and only when it differs; it
\* returns the first item of the lookup that matched, which is the last one it
\* made; it ends after at most two lookups.
C3_ExactThenDecoded ==
  /\ LookupsInOrder(cur)
  /\ LookupsInOrder(last)
  /\ gpc \in {"lookupExact", "lookupDecoded"} =>
       Len(cur.lookups) = (IF gpc = "lookupExact" THEN 1 ELSE 2)
  /\ last.ret = "meeting" =>
       /\ last.matched = Len(last.lookups)
       /\ last.meeting = BackendMeeting(last.lookups[last.matched], 1)
       /\ fnStatus # "threw" =>
            /\ resolved # <<>>
            /\ resolved[Len(resolved)].joinWebUrl = last.lookups[last.matched]
            /\ resolved[Len(resolved)].item = 1
  /\ last.ret = "null" =>
       Len(last.lookups) =
         (IF decodeURIComponent(last.joinUrl).value # last.joinUrl THEN 2 ELSE 1)
  /\ last.ret = "throw" => Len(last.lookups) = 1

\* the exact lookup found nothing and the lookup of the decoded URL matched
C3_Witness ==
  /\ last.ret = "meeting"
  /\ last.matched = 2
  /\ last.meeting.joinWebUrl # last.joinUrl

\* C4 as claimed: findMeetingsByName and listMeetings complete normally
\* whatever the resolutions of the candidates give, every candidate having
\* been tried (up to the limit, in listMeetings).
C4_FailuresTolerated ==
  gpc = "returned" =>
    /\ fnStatus = "returned"
    /\ Len(resolved) <= resolverCalls
    /\ fn = "findMeetingsByName" => resolverCalls = Len(cands)

CalendarFailedLine ==
  [level |-> "error", text |-> "GET failed", about |-> "calendarView"]
CalendarReturnedLine ==
  [level |-> "log", text |-> "calendarView returned", about |-> "calendarView"]

\* C5: a failed calendarView request gives no events and an error line in
\* the log that a successful request never writes; findMeetingsByName and
\* listMeetings then return an empty array without resolving anything, and
\* the tool call ends without an error.
C5_FetchFailsSoft ==
  /\ calOutcome \in GetFailures =>
       /\ CalendarFailedLine \in log
       /\ events = <<>>
       /\ gpc \in {"returned", "done"}
       /\ fnStatus = "returned"
       /\ resolved = <<>>
       /\ resolverCalls = 0
       /\ gpc = "done" =>
            /\ ~result.isError
            /\ result.msg \in {"No meeting found matching", "No meetings found for ",
                               "No recent meetings found."}
  /\ calOutcome = "ok" => CalendarFailedLine \notin log
  /\ calOutcome # "none" => CalendarReturnedLine \in log

\* get_meeting_transcript has ended after a calendarView request that failed
C5_Witness ==
  /\ calOutcome = "network"
  /\ tool = "get_meeting_transcript"
  /\ gpc = "done"

\* C6: when the transcripts request of get_meeting_transcript (or
\* save_transcript) fails, the tool call ends with an error result, not with
\* the no-transcript message, and no content is downloaded.
C6_ListingFailsHard ==
  (tool \in {"get_meeting_transcript", "save_transcript"} /\ trOutcome \in GetFailures)
    => /\ gpc = "done"
       /\ result.isError
       /\ result.msg # NoTranscriptMessage
       /\ transcripts = <<>>
       /\ contentCalls = 0

\* get_meeting_transcript has ended after a transcripts request that failed
C6_Witness ==
  /\ tool = "get_meeting_transcript"
  /\ trOutcome = "denied"
  /\ gpc = "done"

\* C7: a meeting without transcripts ends get_meeting_transcript and
\* save_transcript with the no-transcript message and without a download;
\* a search that finds no meeting ends them with another message, without a
\* transcripts request.
C7_NoTranscriptNoDownload ==
  tool \in {"get_meeting_transcript", "save_transcript"} =>
    /\ (trOutcome = "ok" /\ transcripts = <<>>) =>
         /\ gpc = "done"
         /\ contentCalls = 0
         /\ ~result.isError
         /\ result.msg = NoTranscriptMessage
         /\ meetings # <<>>
    /\ (gpc = "done" /\ fnStatus = "returned" /\ meetings = <<>>) =>
         /\ result.msg = NoMeetingMessage
         /\ result.msg # NoTranscriptMessage
         /\ listCalls = 0
         /\ contentCalls = 0

\* save_transcript has ended for a meeting that was found and has no transcript
C7_Witness ==
  /\ tool = "save_transcript"
  /\ trOutcome = "ok"
  /\ transcripts = <<>>
  /\ meetings # <<>>
  /\ gpc = "done"

\* C8: no two adjacent paragraphs of the text cleanVttTranscript returns are
\* attributed to the same speaker.
C8_AdjacentSpeakersDiffer ==
  vpc = "done" =>
    LET ps == splitLines(output)
    IN \A i \in 1..(Len(ps) - 1) :
         (hasSpeakerMatch(ps[i]) /\ hasSpeakerMatch(ps[i + 1]))
           => matchSpeaker(ps[i]) # matchSpeaker(ps[i + 1])

\* three dialogue lines, two of one speaker in a row, gave two paragraphs
C8_Witness ==
  /\ vpc = "done"
  /\ pass = 1
  /\ Len(cleanedLines) = 3
  /\ \E i \in 1..2 : /\ hasSpeakerMatch(cleanedLines[i])
                     /\ hasSpeakerMatch(cleanedLines[i + 1])
                     /\ matchSpeaker(cleanedLines[i]) = matchSpeaker(cleanedLines[i + 1])
  /\ Len(splitLines(output)) = 2
  /\ \A i \in 1..2 : hasSpeakerMatch(splitLines(output)[i])

\* C9 as claimed: cleaning the cleaned text again gives the same text.
C9_Idempotent ==
  (vpc = "done" /\ pass = 2) => output = firstOutput

\* the cues of a text, and the text it has only structural lines besides
CuesOf(ls) == SelectSeq(ls, LAMBDA l : l.kind = "cue")
AllVoiceTagged(ls) ==
  \A i \in 1..Len(ls) : ls[i].kind \in {"cue", "blank", "header", "timing", "id"}

RECURSIVE joinSpace(_)
joinSpace(ts) ==
  IF ts = <<>> THEN <<>>
  ELSE IF Len(ts) = 1 THEN ts[1]
  ELSE ts[1] \o <<" ">> \o joinSpace(Tail(ts))

\* the maximal runs of cues of one speaker: [speaker, texts]
RECURSIVE RunsOf(_)
RunsOf(cs) ==
  IF cs = <<>> THEN <<>>
  ELSE LET rest == RunsOf(Tail(cs))
       IN IF rest # <<>> /\ rest[1].speaker = cs[1].speaker
          THEN <<[speaker |-> cs[1].speaker, texts |-> <<cs[1].text>> \o rest[1].texts]>>
               \o Tail(rest)
          ELSE <<[speaker |-> cs[1].speaker, texts |-> <<cs[1].text>>]>> \o rest

\* C10 as claimed: a text whose dialogue lines all carry a voice tag cleans to
\* one paragraph 'Speaker: t1 ... tk' per maximal run of cues of one speaker,
\* in source order, joined by newlines.
C10_OneParagraphPerRun ==
  (vpc = "done" /\ pass = 1 /\ AllVoiceTagged(src)) =>
    LET runs == RunsOf(CuesOf(src))
    IN output = joinNewline([i \in 1..Len(runs) |->
                               runs[i].speaker \o <<":", " ">> \o joinSpace(runs[i].texts)])

\* line k of the text is blank / opens a comment block / is a line the Normal
\* state drops
C11_Blank(k) == trim(lines[k]) = <<>>
C11_Opens(k) == isNoteLine(trim(lines[k])) /\ ~isHeaderLine(trim(lines[k]))
C11_Structural(k) ==
  LET t == trim(lines[k])
  IN t = <<>> \/ isHeaderLine(t) \/ isNoteLine(t) \/ isTimingLine(t)
     \/ isNumericId(t) \/ isUuidId(t)

\* line k comes after a line that opens a comment block, with no blank line
\* between the two
C11_InBlock(k) ==
  \E j \in 1..(k - 1) : C11_Opens(j) /\ \A m \in (j + 1)..(k - 1) : ~C11_Blank(m)

\* the dialogue of the first n lines that are outside every comment block
RECURSIVE C11_Kept(_)
C11_Kept(n) ==
  IF n = 0 THEN <<>>
  ELSE IF C11_InBlock(n) \/ C11_Structural(n) \/ cleanDialogue(trim(lines[n])) = <<>>
       THEN C11_Kept(n - 1)
       ELSE Append(C11_Kept(n - 1), cleanDialogue(trim(lines[n])))

\* C11: in the line loop of cleanVttTranscript the comment block is open
\* exactly from a line that starts with NOTE to the next blank line; every
\* line in it is dropped whatever it holds, and the lines outside are
\* processed in the Normal state.
C11_CommentBlockDropped ==
  vpc = "lines" =>
    /\ skipNote = C11_InBlock(li)
    /\ cleanedLines = C11_Kept(li - 1)

\* a NOTE line, a dialogue line and a blank line have been processed: the
\* dialogue line was dropped and the block is closed
C11_Witness ==
  /\ vpc = "lines"
  /\ li = 4
  /\ C11_Opens(1)
  /\ ~C11_Structural(2) /\ cleanDialogue(trim(lines[2])) # <<>>
  /\ C11_Blank(3)
  /\ ~skipNote
  /\ cleanedLines = <<>>

InListMeetings ==
  fn = "listMeetings" /\ gpc \in {"lookupExact", "lookupDecoded", "returned"}

\* C12: listMeetings never holds more than limit meetings, a resolver call is
\* under way only while fewer than limit are resolved, one call was made per
\* candidate up to the last one tried, and when the limit is reached the
\* last call made is the one that gave the limit-th meeting; the listing
\* has at most limit items.
C12_StopsAtLimit ==
  /\ InListMeetings =>
       /\ Len(resolved) <= limit
       /\ gpc # "returned" => Len(resolved) < limit
       /\ resolverCalls = ci
       /\ (gpc = "returned" /\ Len(resolved) = limit) =>
            /\ last.ret = "meeting"
            /\ last.joinUrl = cands[ci].joinUrl
  /\ (tool = "list_recent_meetings" /\ gpc \in {"probes", "done"}) =>
       /\ Len(meetings) <= limit
       /\ Len(result.items) <= limit

\* listMeetings has returned limit meetings and left a candidate untried
C12_Witness ==
  /\ InListMeetings
  /\ gpc = "returned"
  /\ Len(resolved) = limit
  /\ ci < Len(cands)
  /\ resolverCalls < Len(cands)

\* C13 as claimed: the limit listMeetings enforces is at most 50, whether
\* the call comes from the list_recent_meetings handler or from another
\* caller, so that it never returns more than 50 meetings.
C13_ClampedTwice ==
  InListMeetings => (limit <= 50 /\ Len(resolved) <= 50)

InResolution == gpc \in {"lookupExact", "lookupDecoded", "returned"}

\* C14 as claimed: the meeting a resolution adds to the result carries the
\* subject of the calendar event it was resolved from, whatever that subject
\* and the subject of the backend object are.
C14_SubjectOverwritten ==
  (InResolution /\ last.ret = "meeting") =>
    resolved[Len(resolved)].subject = last.event.subject

C16_From(m, e) ==
  /\ e.joinUrl # <<>>
  /\ m.joinWebUrl \in {e.joinUrl, decodeURIComponent(e.joinUrl).value}
  /\ m.subject = (IF e.subject # <<>> THEN e.subject ELSE BackendSubject)

\* the meetings ms come from distinct events of evs, in the order of evs
RECURSIVE C16_Embeds(_, _)
C16_Embeds(ms, evs) ==
  IF ms = <<>> THEN TRUE
  ELSE IF evs = <<>> THEN FALSE
  ELSE IF C16_From(ms[1], evs[1]) THEN C16_Embeds(Tail(ms), Tail(evs))
  ELSE C16_Embeds(ms, Tail(evs))

\* C16: the meetings findMeetingsByName and listMeetings hold, and return, are
\* resolved from distinct calendar events and stand in the order in which
\* the calendar request returned those events.
C16_OrderPreserved ==
  InResolution => (Len(resolved) <= Len(events) /\ C16_Embeds(resolved, events))

\* two events with different join URLs have both been resolved, and the two
\* meetings the other way round would not be in calendar order
C16_Witness ==
  /\ gpc = "returned"
  /\ fnStatus = "returned"
  /\ Len(resolved) = 2
  /\ resolved[1].joinWebUrl # resolved[2].joinWebUrl
  /\ ~C16_Embeds(<<resolved[2], resolved[1]>>, events)

C17_WithJoinUrl == SelectSeq(events, LAMBDA e : e.joinUrl # <<>>)

\* C17: only calendar events with a join URL are kept as candidates, are
\* given to resolveOnlineMeeting or looked up, and give a meeting: there are
\* no more resolver calls, and no more meetings, than events with a join URL.
C17_NoJoinUrlNoLookup ==
  InResolution =>
    /\ \A i \in 1..Len(cands) : cands[i].joinUrl # <<>>
    /\ gpc # "returned" =>
         /\ cur.joinUrl # <<>>
         /\ \A i \in 1..Len(cur.lookups) : cur.lookups[i] # <<>>
    /\ last.ret # "none" =>
         /\ last.event.joinUrl # <<>>
         /\ last.joinUrl = last.event.joinUrl
    /\ resolverCalls <= Len(C17_WithJoinUrl)
    /\ C16_Embeds(resolved, C17_WithJoinUrl)

\* listMeetings has returned over two events, one of them without a join
\* URL, after a single resolver call
C17_Witness ==
  /\ InListMeetings
  /\ gpc = "returned"
  /\ fnStatus = "returned"
  /\ Len(events) = 2
  /\ Len(C17_WithJoinUrl) = 1
  /\ resolverCalls = 1
  /\ Len(resolved) = 1

\* C18 as claimed: with a date filter buildDateRange returns the day from
\* 00:00:00Z to 23:59:59Z; without one it returns a window that starts at
\* least 30 days before now and ends at least 7 days after now.
C18_Window ==
  bpc = "done" =>
    IF dateArg # <<>>
    THEN /\ range.startDT = dateArg \o <<"T","0","0",":","0","0",":","0","0","Z">>
         /\ range.endDT = dateArg \o <<"T","2","3",":","5","9",":","5","9","Z">>
    ELSE /\ range.startDT <= now - Days(30)
         /\ range.endDT >= now + Days(7)

\* C19: the calendarView request asks for min(maxEvents, 100) events, never
\* for more than 100: findMeetingsByName calls with maxEvents = 100,
\* listMeetings with three times its limit, at most 100.
C19_TopAtMost100 ==
  fn # "" =>
    /\ calReq.top <= 100
    /\ calReq.top <= calReq.maxEvents
    /\ (calReq.top = calReq.maxEvents \/ calReq.top = 100)
    /\ fn = "findMeetingsByName" => (calReq.maxEvents = 100 /\ calReq.top = 100)
    /\ fn = "listMeetings" =>
         /\ calReq.maxEvents = (IF limit * 3 < 100 THEN limit * 3 ELSE 100)
         /\ calReq.top = calReq.maxEvents

\* the request of listMeetings for limit 1 asks for 3 events; the request
\* for a limit of 50 asks for 100
C19_Witness ==
  /\ gpc = "calendar"
  /\ fn = "listMeetings"
  /\ \/ (limit = 1 /\ calReq.top = 3)
     \/ (limit = 50 /\ calReq.top = 100)

\* C20: a call of getTranscriptContent makes one request, for the text/vtt
\* format; when the request fails the tool call ends with an error result
\* and no second request, and no text is cleaned or returned.
C20_OneDownloadNoRetry ==
  /\ contentReq.requests = contentCalls
  /\ contentReq.requests <= 1
  /\ contentReq.requests = 1 =>
       (contentReq.format = "text/vtt" /\ contentReq.accept = "text/vtt")
  /\ gpc = "content" => (contentReq.requests = 1 /\ contentReq.outcome = "none")
  /\ contentReq.outcome \in GetFailures =>
       /\ gpc = "done"
       /\ result.isError
       /\ result.msg = "Error: Graph API"
       /\ result.text = <<>>
       /\ cleanText = <<>>

\* get_meeting_transcript has ended after a download that failed
C20_Witness ==
  /\ tool = "get_meeting_transcript"
  /\ contentReq.outcome = "network"
  /\ contentReq.requests = 1
  /\ gpc = "done"

UnclosedTag == <<"<", "v", " ", "A">>

\* the steps a call of cleanVttTranscript has left at most
C24_StepsLeft ==
  IF vpc = "call" THEN 2 * Len(splitLines(rawVtt)) + 3
  ELSE IF vpc = "lines" THEN (Len(lines) + 1 - li) + Len(lines) + 2
  ELSE IF vpc = "merge" THEN (Len(cleanedLines) + 1 - mi) + 1
  ELSE 0

\* C24: whatever the text, malformed or empty, every step of a call of
\* cleanVttTranscript brings its return nearer, so that it returns; a text
\* with a dialogue line outside every comment block cleans to a non-empty
\* text whatever the other lines hold, a text without one to the empty text,
\* and no line gives more than one paragraph.
C24_DegradesGracefully ==
  /\ [][vpc' # "call" => C24_StepsLeft' < C24_StepsLeft]_vars
  /\ [](vpc = "done" => ((output = <<>>) <=> (C11_Kept(Len(lines)) = <<>>)))
  /\ [](vpc = "done" => Len(splitLines(output)) <= Len(lines))

\* a text of an unclosed tag, a cue and a comment block that is never closed
\* has been cleaned to a text that holds the cue
C24_Witness ==
  /\ vpc = "done"
  /\ pass = 1
  /\ Len(src) = 3
  /\ src[1].raw = UnclosedTag
  /\ src[2].kind = "cue"
  /\ src[3].kind = "note"
  /\ skipNote
  /\ Len(cleanedLines) = 2
  /\ output # <<>>

\* the text of a cleaned line: what follows the speaker prefix and the white
\* space after it when it has one, the whole line otherwise
C26_TextOf(c) ==
  IF hasSpeakerMatch(c)
  THEN SubSeq(c, skipWs(c, indexOfFrom(c, ":", 1) + 1), Len(c))
  ELSE c

\* the text of a paragraph of the output: what follows 'Speaker: '
C26_BodyOf(p) ==
  IF hasSpeakerMatch(p) THEN SubSeq(p, indexOfFrom(p, ":", 1) + 2, Len(p)) ELSE p

C26_Texts(cs) == joinSpace([i \in 1..Len(cs) |-> C26_TextOf(cs[i])])
C26_Bodies(ps) == joinSpace([i \in 1..Len(ps) |-> C26_BodyOf(ps[i])])

\* C26 as claimed: the output of cleanVttTranscript holds the texts of the
\* dialogue lines outside comment blocks, in source order, each once, and
\* nothing of the other lines.
C26_DialogueKeptInOrder ==
  (vpc = "done" /\ cleanedLines # <<>>) =>
    /\ cleanedLines = C11_Kept(Len(lines))
    /\ C26_Bodies(splitLines(output)) = C26_Texts(C11_Kept(Len(lines)))

\* the claim for the texts without a carriage return inside a line
C26_WithoutLoneCR ==
  (vpc = "done" /\ cleanedLines # <<>> /\ \A i \in 1..Len(rawVtt) : rawVtt[i] # "\r") =>
    /\ cleanedLines = C11_Kept(Len(lines))
    /\ C26_Bodies(splitLines(output)) = C26_Texts(C11_Kept(Len(lines)))

\* index in cleanedLines of the first line with a speaker prefix,
\* Len(cleanedLines) + 1 when there is none
C27_FirstSpeakerLine ==
  LET ks == {k \in 1..Len(cleanedLines) : hasSpeakerMatch(cleanedLines[k])}
  IN IF ks = {} THEN Len(cleanedLines) + 1 ELSE CHOOSE k \in ks : \A j \in ks : k <= j

\* the number of lines the merge loop has processed
C27_Processed == IF vpc = "merge" THEN mi - 1 ELSE Len(cleanedLines)

\* s ends with a space and t
C27_EndsWith(s, t) ==
  /\ Len(s) >= Len(t) + 1
  /\ SubSeq(s, Len(s) - Len(t), Len(s)) = <<" ">> \o t

\* C27: in mergeSpeakerLines a buffer is open exactly from the first line with
\* a speaker prefix on; the lines before it, and no others, are emitted
\* standalone, as they are and in their order; a line without a prefix that
\* comes later is appended to the open buffer; and when the loop has ended
\* the open buffer is the last paragraph of the output.
C27_StandaloneOnlyBeforeSpeaker ==
  (vpc \in {"merge", "done"} /\ cleanedLines # <<>>) =>
    LET k == C27_FirstSpeakerLine
        n == C27_Processed
    IN /\ (currentSpeaker # <<>>) <=> (n >= k)
       /\ Len(merged) >= Min(n, k - 1)
       /\ \A i \in 1..Len(merged) :
            IF i <= k - 1
            THEN merged[i] = cleanedLines[i] /\ ~hasSpeakerMatch(merged[i])
            ELSE hasSpeakerMatch(merged[i])
       /\ (n > k /\ ~hasSpeakerMatch(cleanedLines[n])) =>
            C27_EndsWith(currentText, cleanedLines[n])
       /\ (vpc = "done" /\ k <= Len(cleanedLines)) =>
            /\ Len(merged) >= k
            /\ merged[Len(merged)] = paragraph(currentSpeaker, currentText)
            /\ output = joinNewline(merged)

\* a line without a prefix, a speaker line and another line without a prefix
\* have been merged into a standalone line and one paragraph
C27_Witness ==
  /\ vpc = "done"
  /\ pass = 1
  /\ Len(cleanedLines) = 3
  /\ ~hasSpeakerMatch(cleanedLines[1])
  /\ hasSpeakerMatch(cleanedLines[2])
  /\ ~hasSpeakerMatch(cleanedLines[3])
  /\ Len(merged) = 2
  /\ merged[1] = cleanedLines[1]

\* C29: save_transcript without a meeting name or without a site URL ends
\* with an error result before any backend call; the transcripts are listed
\* only after the search returned a meeting, the content is downloaded only
\* after a listing that is not empty, and the site is resolved and the file
\* uploaded only after the download succeeded; a step that fails, or finds
\* nothing, ends the call.
C29_StepsInOrder ==
  tool = "save_transcript" =>
    /\ (args.meetingName = <<>> \/ args.siteUrl = <<>>) =>
         /\ gpc = "done"
         /\ result.isError
         /\ fn = "" /\ calReq = NoRequest /\ calOutcome = "none"
         /\ resolverCalls = 0 /\ listCalls = 0 /\ contentCalls = 0
    /\ listCalls <= 1 /\ contentCalls <= 1
    /\ listCalls = 1 => (fnStatus = "returned" /\ calOutcome = "ok" /\ meetings # <<>>)
    /\ contentCalls = 1 => (listCalls = 1 /\ trOutcome = "ok" /\ transcripts # <<>>)
    /\ (gpc \in {"site", "upload"} \/ result.msg = "Saved to SharePoint") =>
         /\ meetings # <<>>
         /\ trOutcome = "ok" /\ transcripts # <<>>
         /\ contentCalls = 1 /\ contentReq.outcome = "ok"
    /\ (gpc = "done" /\ ~result.isError /\ result.msg # "Saved to SharePoint") =>
         (meetings = <<>> \/ transcripts = <<>>)
    /\ (calOutcome \in GetFailures \/ fnStatus = "threw" \/ trOutcome \in GetFailures
          \/ contentReq.outcome \in GetFailures) => gpc \in {"returned", "done"}

\* save_transcript has uploaded the cleaned transcript of the meeting it found
C29_Witness ==
  /\ tool = "save_transcript"
  /\ gpc = "done"
  /\ result.msg = "Saved to SharePoint"
  /\ result.text # <<>>

\* C25: get_meeting_transcript lists the transcripts of the first meeting
\* the search returned, once, and downloads the first transcript of that
\* listing, once, when there is one; it makes no other listing or download.
C25_FirstItemsOnly ==
  tool = "get_meeting_transcript" =>
    /\ Len(sent) <= 2
    /\ listCalls = Len(SelectSeq(sent, LAMBDA c : c.op = "listTranscripts"))
    /\ contentCalls = Len(SelectSeq(sent, LAMBDA c : c.op = "getTranscriptContent"))
    /\ (gpc \in {"transcripts", "content", "done"} /\ meetings # <<>>) =>
         /\ Len(sent) >= 1
         /\ sent[1] = [op |-> "listTranscripts", meeting |-> meetings[1],
                       transcript |-> ""]
    /\ (trOutcome = "ok" /\ transcripts # <<>>) =>
         /\ Len(sent) = 2
         /\ sent[2] = [op |-> "getTranscriptContent", meeting |-> meetings[1],
                       transcript |-> transcripts[1]]
    /\ Len(sent) = 2 => (trOutcome = "ok" /\ transcripts # <<>>)
    /\ Len(sent) >= 1 => meetings # <<>>

\* the search returned two meetings and the listing two transcripts; the
\* call has ended after one listing and one download
C25_Witness ==
  /\ tool = "get_meeting_transcript"
  /\ gpc = "done"
  /\ Len(meetings) = 2
  /\ meetings[1] # meetings[2]
  /\ Len(transcripts) = 2
  /\ transcripts[1] # transcripts[2]
  /\ Len(sent) = 2
  /\ ~result.isError

\* an Authorization header of the form "Bearer <token>"
C22_WellFormed(h) ==
  /\ Len(h) >= 8
  /\ toLowerCase(SubSeq(h, 1, 6)) = Bearer
  /\ h[7] = " "
  /\ \A i \in 8..Len(h) : h[i] # " "

C22_NothingDone(r) ==
  /\ reqs[r].pc = "responded"
  /\ reqs[r].name = ""
  /\ reqs[r].calls = <<>>
  /\ reqs[r].result = NoResult

C21_BearerOf(h) == SubSeq(h, 8, Len(h))

\* C21: every Graph call made while serving a POST /mcp request carries the
\* Graph token that an on-behalf-of exchange made by that same request gave
\* for that request's own bearer token, however the requests interleave.
C21_OwnTokenOnEveryCall ==
  \A r \in Requests :
    \A i \in 1..Len(reqs[r].calls) :
      /\ reqs[r].calls[i].token # NoToken
      /\ reqs[r].calls[i].token = reqs[r].graphToken
      /\ reqs[r].calls[i].token.for = C21_BearerOf(reqs[r].header)
      /\ \E x \in oboLog :
           /\ x.by = r
           /\ x.assertion = C21_BearerOf(reqs[r].header)
           /\ x.token = reqs[r].calls[i].token

\* two requests of different users are both in the middle of their tool
\* calls, each with Graph calls made
C21_Witness ==
  \E r, o \in Requests :
    /\ reqs[r].userToken # reqs[o].userToken
    /\ reqs[r].pc = "content"
    /\ reqs[o].pc = "transcripts"
    /\ Len(reqs[r].calls) = 3
    /\ Len(reqs[o].calls) = 2

C28_Tools == {"list_recent_meetings", "get_meeting_transcript", "save_transcript"}

\* the message of the failure that a tool handler of the request let out
C28_Raised(q) ==
  IF q.got.find = Threw \/ q.got.listMeetings = Threw THEN "Error: URI malformed"
  ELSE IF FailedAnswer \in {q.got.transcripts, q.got.content, q.got.site, q.got.upload}
  THEN "Error: Graph API"
  ELSE ""

\* C28: whenever a tool handler lets a failure out (the search, the transcript
\* listing, the content download, the site resolution or the upload failed),
\* the tools/call request is answered with HTTP 200 and a result with isError
\* carrying the message of that failure; an unknown tool name gets an isError
\* result; and the HTTP 500 response is only given to a request for which no
\* tool handler ran.
C28_ToolErrorsContained ==
  \A r \in Requests :
    /\ C28_Raised(reqs[r]) # "" =>
         /\ reqs[r].pc = "responded"
         /\ reqs[r].status = 200
         /\ reqs[r].result = ErrorResult(C28_Raised(reqs[r]))
    /\ (reqs[r].name \notin C28_Tools \cup {"", "tools/list"}) =>
         /\ reqs[r].status = 200
         /\ reqs[r].result.isError
         /\ reqs[r].calls = <<>>
    /\ reqs[r].status = 500 => reqs[r].name = "" /\ reqs[r].calls = <<>>
    /\ (reqs[r].name # "" /\ reqs[r].pc = "responded") => reqs[r].status = 200

\* an upload that failed in one request, an unknown tool in another
C28_Witness ==
  \E r, o \in Requests :
    /\ reqs[r].name = "save_transcript"
    /\ reqs[r].got.upload = FailedAnswer
    /\ reqs[r].status = 200
    /\ reqs[o].name = "delete_meeting"
    /\ reqs[o].pc = "responded"

C30_Ops(q) == [i \in 1..Len(q.calls) |-> q.calls[i].op]

C30_Count(q, op) == Cardinality({i \in 1..Len(q.calls) : q.calls[i].op = op})

\* C30: in get_meeting_transcript, with includeTimestamps = true the metadata
\* is asked for before any content; when fetching or parsing it fails there is
\* exactly one standard content download, whose cleaned text is returned
\* behind the note, and a failure of that download is an error result; when it
\* succeeds there is no content download; with includeTimestamps false or
\* absent the metadata is never asked for.
C30_TimestampFallback ==
  \A r \in Requests :
    LET q == reqs[r]
        md == q.got.metadata
    IN q.name = "get_meeting_transcript" =>
         /\ q.toolArgs.includeTimestamps # "true" =>
              C30_Count(q, "getTranscriptMetadataContent") = 0
         /\ q.toolArgs.includeTimestamps = "true" =>
              /\ C30_Count(q, "getTranscriptMetadataContent") <= 1
              /\ C30_Count(q, "getTranscriptContent") > 0 =>
                   /\ md # NoAnswer
                   /\ md = FailedAnswer \/ md.value # TimestampedText
              /\ (md # NoAnswer /\ (md = FailedAnswer \/ md.value # TimestampedText)) =>
                   /\ C30_Count(q, "getTranscriptContent") = 1
                   /\ C30_Ops(q)[Len(q.calls)] = "getTranscriptContent"
                   /\ q.calls[Len(q.calls)].transcript = q.calls[Len(q.calls) - 1].transcript
                   /\ q.pc = "responded" =>
                        IF q.got.content = FailedAnswer
                        THEN q.result.isError /\ q.result.text = <<>>
                        ELSE /\ ~q.result.isError
                             /\ SubSeq(q.result.text, 1, Len(FallbackNote)) = FallbackNote
                             /\ SubSeq(q.result.text, Len(FallbackNote) + 1, Len(q.result.text))
                                  = cleanVttTranscript(q.got.content.value)
              /\ (md # NoAnswer /\ md # FailedAnswer /\ md.value = TimestampedText) =>
                   /\ C30_Count(q, "getTranscriptContent") = 0
                   /\ q.result.text = TimestampedText

\* the metadata did not parse and the fallback download was returned; in
\* another request the metadata request failed and so did the fallback
C30_Witness ==
  \E r, o \in Requests :
    /\ reqs[r].got.metadata = Ok(<<"?">>)
    /\ reqs[r].got.content.status = "ok"
    /\ reqs[r].pc = "responded"
    /\ reqs[o].got.metadata = FailedAnswer
    /\ reqs[o].got.content = FailedAnswer
    /\ reqs[o].pc = "responded"

\* what get_meeting_transcript or save_transcript does, run by itself with
\* arguments a against the answers g: its result and the calls it makes
C23_AloneTranscript(name, a, g) ==
  LET m == g.find.value[1]
      t == g.transcripts.value[1]
      search == <<[op |-> "findMeetingsByName", meeting |-> NoItem, transcript |-> NoTranscript]>>
      listing == search \o <<[op |-> "listTranscripts", meeting |-> m, transcript |-> NoTranscript]>>
      metadata == <<[op |-> "getTranscriptMetadataContent", meeting |-> m, transcript |-> t]>>
      content == <<[op |-> "getTranscriptContent", meeting |-> m, transcript |-> t]>>
      timestamps == name = "get_meeting_transcript" /\ a.includeTimestamps = "true"
      fallback == timestamps /\ ~(g.metadata.status = "ok" /\ g.metadata.value = TimestampedText)
      download == listing \o (IF timestamps THEN metadata ELSE <<>>)
                          \o (IF ~timestamps \/ fallback THEN content ELSE <<>>)
      site == download \o <<[op |-> "resolveSiteId", meeting |-> NoItem, transcript |-> NoTranscript]>>
      upload == site \o <<[op |-> "uploadToSharePoint", meeting |-> m, transcript |-> NoTranscript]>>
      clean == cleanVttTranscript(g.content.value)
  IN IF a.meetingName = <<>>
     THEN [result |-> ErrorResult("meetingName is required."), calls |-> <<>>]
     ELSE IF name = "save_transcript" /\ a.siteUrl = <<>>
     THEN [result |-> ErrorResult("No SharePoint site URL provided."), calls |-> <<>>]
     ELSE IF g.find.status # "ok"
     THEN [result |-> ErrorResult("Error: URI malformed"), calls |-> search]
     ELSE IF g.find.value = <<>>
     THEN [result |-> TextResult(NoMeetingMessage), calls |-> search]
     ELSE IF g.transcripts.status # "ok"
     THEN [result |-> ErrorResult("Error: Graph API"), calls |-> listing]
     ELSE IF g.transcripts.value = <<>>
     THEN [result |-> TextResult(NoTranscriptMessage), calls |-> listing]
     ELSE IF timestamps /\ ~fallback
     THEN [result |-> [isError |-> FALSE, msg |-> "Meeting: ", text |-> TimestampedText,
                       items |-> <<m>>],
           calls |-> download]
     ELSE IF g.content.status # "ok"
     THEN [result |-> ErrorResult("Error: Graph API"), calls |-> download]
     ELSE IF name = "get_meeting_transcript"
     THEN [result |-> [isError |-> FALSE, msg |-> "Meeting: ",
                       text |-> (IF fallback THEN FallbackNote ELSE <<>>) \o clean,
                       items |-> <<m>>],
           calls |-> download]
     ELSE IF g.site.status # "ok"
     THEN [result |-> ErrorResult("Error: Graph API"), calls |-> site]
     ELSE IF g.upload.status # "ok"
     THEN [result |-> ErrorResult("Error: Graph API"), calls |-> upload]
     ELSE [result |-> [isError |-> FALSE, msg |-> "Saved to SharePoint", text |-> clean,
                       items |-> <<m>>],
           calls |-> upload]

\* what list_recent_meetings does, run by itself against the answers g
C23_AloneList(g) ==
  LET ms == g.listMeetings.value
      first == <<[op |-> "listMeetings", meeting |-> NoItem, transcript |-> NoTranscript]>>
  IN IF g.listMeetings.status # "ok"
     THEN [result |-> ErrorResult("Error: URI malformed"), calls |-> first]
     ELSE IF ms = <<>>
     THEN [result |-> TextResult("No recent meetings found."), calls |-> first]
     ELSE [result |-> [isError |-> FALSE, msg |-> "listing", text |-> <<>>,
                       items |-> [j \in 1..Len(ms) |->
                                    [meeting |-> ms[j],
                                     hasTranscript |-> /\ g.probes[j].status = "ok"
                                                       /\ g.probes[j].value # <<>>]]],
           calls |-> first \o [j \in 1..Len(ms) |->
                                 [op |-> "listTranscripts", meeting |-> ms[j],
                                  transcript |-> NoTranscript]]]

C23_Alone(q) ==
  IF q.name = "list_recent_meetings" THEN C23_AloneList(q.got)
  ELSE C23_AloneTranscript(q.name, q.toolArgs, q.got)

\* the calls of a request without the token they carried
C23_CallsOf(q) ==
  [i \in 1..Len(q.calls) |->
     [op |-> q.calls[i].op, meeting |-> q.calls[i].meeting,
      transcript |-> q.calls[i].transcript]]

\* C23: whatever else is in flight, a tool call that has been answered has the
\* result, and has made exactly the calls, that the same tool gives when it is
\* run by itself on the same arguments against the answers this request got;
\* so it made its own search, listing and download calls and took nothing
\* from another request.
C23_AsIfRunAlone ==
  \A r \in Requests :
    (reqs[r].pc = "responded" /\ reqs[r].name \in C28_Tools) =>
      /\ reqs[r].result = C23_Alone(reqs[r]).result
      /\ C23_CallsOf(reqs[r]) = C23_Alone(reqs[r]).calls

\* get_meeting_transcript and list_recent_meetings of two different users
\* have both been answered, each with the data of its own user
C23_Witness ==
  \E r, o \in Requests :
    /\ reqs[r].name = "get_meeting_transcript"
    /\ reqs[o].name = "list_recent_meetings"
    /\ reqs[r].userToken # reqs[o].userToken
    /\ reqs[r].pc = "responded" /\ reqs[o].pc = "responded"
    /\ reqs[r].result.text # <<>>
    /\ Len(reqs[o].result.items) = 2

====
